---- MODULE Spec2Model ----
(***************************************************************************)
(* A model of physicsfront.qiskit.qft: the memoizing factory get_qft, the  *)
(* cross-links it binds on the generated procedures, the batch driver      *)
(* define_qft_functions, and the gate sequences the generated procedures   *)
(* emit; and of the functions of physicsfront.qiskit that read a job       *)
(* result: clbit_label_to_mii, memory_item_index and gather_counts.        *)
(*                                                                         *)
(* Python values are modelled as follows.  The argument mf takes the       *)
(* values "True", "False", "measured" and "measure" (the two booleans are  *)
(* written as strings so that they can share a set with the sentinels).    *)
(* A function object is a positive index into the sequence objs; 0 is      *)
(* None.  An attribute that has not been set has the value 0.              *)
(***************************************************************************)
EXTENDS Integers, Sequences, FiniteSets, TLC

VARIABLES
    cache,      \* the dict cache of get_qft: funcname -> function object
    objs,       \* the function objects created so far, with their attributes
    stack,      \* the active _get_qft calls, innermost last
    result,     \* the value returned by the last completed outermost call
    err,        \* the exception raised by the last outermost call, or "none"
    client,     \* who made the outermost call: "idle", "user", "define", "run"
    pending,    \* the arguments of the outermost call made by the user
    calls,      \* the completed user calls: the set of (arguments, object)
    namespace,  \* define_qft_functions: the dict the procedures are bound in
    accepts,    \* define_qft_functions: the names bound, in order
    rejects,    \* define_qft_functions: the names rejected, in order
    reject_map, \* define_qft_functions: rejected name -> procedure
    dqf,        \* define_qft_functions: arguments, loop position, f
    qc,         \* the gates applied to the circuit of the round trip
    run,        \* the round trip: its position, n and the two procedures
    job,        \* the result object r: its experiments and their bit labels
    mii,        \* what clbit_label_to_mii (r) returned or raised
    memory,     \* r.get_memory (): one string per shot
    mix,        \* memory_item_index: its arguments and what it returned
    counts,     \* gather_counts: its arguments and what it returned
    gen,        \* tokenize and expand: the generator and what came of it
    prov,       \* get_provider: _cached, and the last call and its outcome
    mon,        \* jobs_monitor: its local variables and where it stands
    world,      \* the status that each job reports, by job id
    wire        \* WiringInstruction.prepare: qc0 before and after, and the outcome

qftVars == <<cache, objs, stack, result, err>>
userVars == <<client, pending, calls>>
dqfVars == <<namespace, accepts, rejects, reject_map, dqf>>
runVars == <<qc, run>>
bitVars == <<job, mii, memory, mix, counts>>
monVars == <<mon, world>>
restVars == <<gen, prov, monVars, wire>>

\* ------------------------------------------------------------------ bounds
MaxCalls == 2
MaxObjs == 18
MaxN == 4
MaxLabels == 4
MaxSpecs == 2
MaxShots == 2
MaxItems == 4
MaxProviders == 3
MaxJobs == 2
MaxMinLen == 10
MaxWires == 2
SpaceWidth == 2

\* ------------------------------------------------------------------ values
Endians == {"auto", "opposite", "auto_opposite", "little", "big"}
BadEndians == {"middle"}
Mfs == {"True", "False", "measured", "measure"}
Attrs == {"__inverse__", "__opposite_endian__", "__opposite_mf__",
          "__other_mf__", "__example__"}

Truthy(mf) == mf # "False"
PyNot(mf) == IF Truthy(mf) THEN "False" ELSE "True"

\* ------------------------------------------------- argument normalisation
\* A variant that forgets the synonym.
NormMfNoSynonym(mf) == mf

NormMf(mf) == IF mf = "measure" THEN "measured" ELSE mf

\* A variant that resolves the measured mode like the other modes.
NormEndianByInverse(output_endian, inverse, mf) ==
    IF output_endian = "auto"
    THEN IF inverse THEN "little" ELSE "big"
    ELSE IF output_endian = "opposite" \/ output_endian = "auto_opposite"
    THEN IF inverse THEN "big" ELSE "little"
    ELSE output_endian

NormEndian(output_endian, inverse, mf) ==
    IF output_endian = "auto"
    THEN IF mf = "measured" THEN "little"
         ELSE IF inverse THEN "little" ELSE "big"
    ELSE IF output_endian = "opposite" \/ output_endian = "auto_opposite"
    THEN IF mf = "measured" THEN "big"
         ELSE IF inverse THEN "big" ELSE "little"
    ELSE output_endian

FuncName(output_endian, inverse, mf) ==
    (IF inverse THEN "iqft" ELSE "qft")
    \o (IF Truthy(mf) THEN (IF mf = "measured" THEN "_m" ELSE "_mf") ELSE "")
    \o (IF output_endian = "little" THEN "_leo" ELSE "_beo")

FuncNameExample(funcname) == "_" \o funcname \o "_example"

\* ---------------------------------------------------------------- the cache
CacheGet(c, funcname) == IF funcname \in DOMAIN c THEN c[funcname] ELSE 0

\* A variant that rebuilds the dict instead of adding to it.
Add2CacheReplacing(c, funcname, f) == funcname :> f

Add2Cache(c, funcname, f) == c @@ (funcname :> f)

\* ------------------------------------------------- the generated procedure
\* A variant whose friendly mode keeps the inner range of the off mode.
TemplateSameIterk(output_endian, inverse, mf) ==
    LET hfirst == IF Truthy(mf) THEN "" ELSE "qc.h (j)"
        hlast  == IF Truthy(mf) THEN "qc.h (j)" ELSE ""
        iterj  == IF output_endian = "big" THEN "reversed (range (n))"
                                           ELSE "range (n)"
        iterk  == IF output_endian = "big" THEN "range (0, j)"
                                           ELSE "range (j + 1, n)"
        jkdif  == IF iterk = "range (j + 1, n)" THEN "k - j"
                  ELSE IF iterk = "range (0, j)" THEN "j - k"
                  ELSE "unexpected"
    IN  [kind |-> IF mf = "measured" THEN "measured" ELSE "full",
         hfirst |-> hfirst, hlast |-> hlast, iterj |-> iterj, iterk |-> iterk,
         jkdif |-> jkdif, psign |-> IF inverse THEN "-" ELSE ""]

\* The pieces substituted into the source template of the procedure.
Template(output_endian, inverse, mf) ==
    LET hfirst == IF Truthy(mf) THEN "" ELSE "qc.h (j)"
        hlast  == IF Truthy(mf) THEN "qc.h (j)" ELSE ""
        iterj  == IF output_endian = "big" THEN "reversed (range (n))"
                                           ELSE "range (n)"
        iterk  == IF Truthy(mf)
                  THEN IF output_endian = "big" THEN "range (j + 1, n)"
                                                ELSE "range (0, j)"
                  ELSE IF output_endian = "big" THEN "range (0, j)"
                                                ELSE "range (j + 1, n)"
        jkdif  == IF iterk = "range (j + 1, n)" THEN "k - j"
                  ELSE IF iterk = "range (0, j)" THEN "j - k"
                  ELSE "unexpected"
    IN  [kind |-> IF mf = "measured" THEN "measured" ELSE "full",
         hfirst |-> hfirst, hlast |-> hlast, iterj |-> iterj, iterk |-> iterk,
         jkdif |-> jkdif, psign |-> IF inverse THEN "-" ELSE ""]

ExampleTemplate(t) == [t EXCEPT !.kind = "example"]

NoAttrs == [a \in Attrs |-> 0]

NewFunction(name, src) == [name |-> name, src |-> src, attrs |-> NoAttrs]

HasAttr(f, attr) == objs[f].attrs[attr] # 0

\* ------------------------------------------------------------ cross-links
\* The order in which bind_inverse_and_others binds the attributes.
FirstBind == "__inverse__"

\* A variant without the early return for mf = False.
NextBindAlways(attr, mf) ==
    IF attr = "__inverse__" THEN "__opposite_endian__"
    ELSE IF attr = "__opposite_endian__" THEN "__opposite_mf__"
    ELSE IF attr = "__opposite_mf__" THEN "__other_mf__"
    ELSE "done"

\* A variant that never binds __other_mf__.
NextBindNoOther(attr, mf) ==
    IF attr = "__inverse__" THEN "__opposite_endian__"
    ELSE IF attr = "__opposite_endian__" THEN "__opposite_mf__"
    ELSE "done"

NextBind(attr, mf) ==
    IF attr = "__inverse__" THEN "__opposite_endian__"
    ELSE IF attr = "__opposite_endian__" THEN "__opposite_mf__"
    ELSE IF attr = "__opposite_mf__" /\ Truthy(mf) THEN "__other_mf__"
    ELSE "done"

OppoEndian(output_endian) == IF output_endian = "little" THEN "big" ELSE "little"

\* A variant whose __inverse__ keeps the endian.
BindArgsSameEndian(attr, output_endian, inverse, mf) ==
    IF attr = "__inverse__"
    THEN [output_endian |-> output_endian, mf |-> mf, inverse |-> ~inverse]
    ELSE IF attr = "__opposite_endian__"
    THEN [output_endian |-> OppoEndian(output_endian), mf |-> mf,
          inverse |-> inverse]
    ELSE IF attr = "__opposite_mf__"
    THEN [output_endian |-> output_endian, mf |-> PyNot(mf),
          inverse |-> inverse]
    ELSE [output_endian |-> output_endian,
          mf |-> IF mf = "measured" THEN "True" ELSE "measured",
          inverse |-> inverse]

\* A variant whose __opposite_mf__ keeps mf.
BindArgsSameMf(attr, output_endian, inverse, mf) ==
    IF attr = "__inverse__"
    THEN [output_endian |-> OppoEndian(output_endian), mf |-> mf,
          inverse |-> ~inverse]
    ELSE IF attr = "__opposite_endian__"
    THEN [output_endian |-> OppoEndian(output_endian), mf |-> mf,
          inverse |-> inverse]
    ELSE IF attr = "__opposite_mf__"
    THEN [output_endian |-> output_endian,
          mf |-> IF mf = "False" THEN "measured" ELSE "False",
          inverse |-> inverse]
    ELSE [output_endian |-> output_endian,
          mf |-> IF mf = "measured" THEN "True" ELSE "measured",
          inverse |-> inverse]

\* A variant whose __opposite_endian__ keeps the endian.
BindArgsOwnEndian(attr, output_endian, inverse, mf) ==
    IF attr = "__inverse__"
    THEN [output_endian |-> OppoEndian(output_endian), mf |-> mf,
          inverse |-> ~inverse]
    ELSE IF attr = "__opposite_endian__"
    THEN [output_endian |-> output_endian, mf |-> mf, inverse |-> inverse]
    ELSE IF attr = "__opposite_mf__"
    THEN [output_endian |-> output_endian, mf |-> PyNot(mf),
          inverse |-> inverse]
    ELSE [output_endian |-> output_endian,
          mf |-> IF mf = "measured" THEN "True" ELSE "measured",
          inverse |-> inverse]

\* The arguments of the _get_qft call whose result is bound to attr.
BindArgs(attr, output_endian, inverse, mf) ==
    IF attr = "__inverse__"
    THEN [output_endian |-> OppoEndian(output_endian), mf |-> mf,
          inverse |-> ~inverse]
    ELSE IF attr = "__opposite_endian__"
    THEN [output_endian |-> OppoEndian(output_endian), mf |-> mf,
          inverse |-> inverse]
    ELSE IF attr = "__opposite_mf__"
    THEN [output_endian |-> output_endian, mf |-> PyNot(mf),
          inverse |-> inverse]
    ELSE [output_endian |-> output_endian,
          mf |-> IF mf = "measured" THEN "True" ELSE "measured",
          inverse |-> inverse]

\* ------------------------------------------------------------------ frames
NewFrame(output_endian, inverse, mf) ==
    [output_endian |-> output_endian, inverse |-> inverse, mf |-> mf,
     pc |-> "enter", funcname |-> "", f |-> 0, attr |-> ""]

Top == stack[Len(stack)]
Below == SubSeq(stack, 1, Len(stack) - 1)
SetTop(stk, fr) == [stk EXCEPT ![Len(stk)] = fr]

\* The value of pending while no call of the user is active (the defaults).
NoPending == [output_endian |-> "auto", inverse |-> FALSE, mf |-> "True"]

\* An exception propagates through every active call: nothing catches it.
Raise(what) ==
    /\ err' = what
    /\ stack' = <<>>
    /\ result' = 0
    /\ client' = "idle"
    /\ pending' = NoPending
    /\ UNCHANGED <<cache, objs, calls>>

\* The returned value v reaches the caller of the call that was on top of
\* stk.  A caller inside bind_inverse_and_others passes it to
\* _bind_one_other; the outermost caller keeps it as the result.
Deliver(stk, v) ==
    IF stk = <<>>
    THEN /\ stack' = <<>>
         /\ result' = v
         /\ calls' = IF client = "user"
                     THEN calls \cup {[args |-> pending, f |-> v]}
                     ELSE calls
         /\ client' = IF client = "user" THEN "idle" ELSE client
         /\ pending' = NoPending
         /\ UNCHANGED <<cache, objs, err>>
    ELSE LET caller == stk[Len(stk)] IN
         IF HasAttr(caller.f, caller.attr) THEN Raise("hasattr")
         ELSE IF caller.f = v THEN Raise("f is f_attr")
         ELSE /\ objs' = [objs EXCEPT ![caller.f].attrs[caller.attr] = v]
              /\ stack' = SetTop(stk, [caller EXCEPT
                                  !.pc = "bind",
                                  !.attr = NextBind(caller.attr, caller.mf)])
              /\ UNCHANGED <<cache, result, err, client, pending, calls>>

\* ------------------------------------------------------------------ actions
\* get_qft (output_endian, inverse, mf), called by a user of the module.
CallGetQft(output_endian, inverse, mf) ==
    /\ UNCHANGED <<dqfVars, runVars, bitVars, restVars>>
    /\ client = "idle"
    /\ stack = <<>>
    /\ Cardinality(calls) < MaxCalls
    /\ client' = "user"
    /\ pending' = [output_endian |-> output_endian, inverse |-> inverse,
                   mf |-> mf]
    /\ stack' = <<NewFrame(output_endian, inverse, mf)>>
    /\ err' = "none"
    /\ UNCHANGED <<cache, objs, result, calls>>

\* _get_qft normalises its arguments.
Resolve ==
    /\ UNCHANGED <<dqfVars, runVars, bitVars, restVars>>
    /\ stack # <<>>
    /\ Top.pc = "enter"
    /\ LET mf == NormMf(Top.mf)
           output_endian == NormEndian(Top.output_endian, Top.inverse, mf)
       IN  IF ~(output_endian = "big" \/ output_endian = "little")
           THEN Raise("output_endian")
           ELSE /\ stack' = SetTop(stack, [Top EXCEPT
                                !.output_endian = output_endian, !.mf = mf,
                                !.funcname =
                                    FuncName(output_endian, Top.inverse, mf),
                                !.pc = "lookup"])
                /\ UNCHANGED <<cache, objs, result, err, client, pending,
                               calls>>

\* The cache lookup of _get_qft: a hit returns the cached procedure.
Lookup ==
    /\ UNCHANGED <<dqfVars, runVars, bitVars, restVars>>
    /\ stack # <<>>
    /\ Top.pc = "lookup"
    /\ LET f_cached == CacheGet(cache, Top.funcname)
           fex_cached == IF Top.mf = "measured"
                         THEN CacheGet(cache, FuncNameExample(Top.funcname))
                         ELSE 0
       IN  IF fex_cached # 0 /\ f_cached = 0
           THEN Raise("fex_cached without f_cached")
           ELSE IF f_cached # 0
           THEN IF Top.mf = "measured" /\ ~HasAttr(f_cached, "__example__")
                THEN Raise("AttributeError")
                ELSE IF objs[f_cached].attrs["__example__"] # fex_cached
                THEN Raise("__example__")
                ELSE Deliver(Below, f_cached)
           ELSE /\ stack' = SetTop(stack, [Top EXCEPT !.pc = "define"])
                /\ UNCHANGED <<cache, objs, result, err, client, pending,
                               calls>>

\* A cache miss: the procedure is generated and added to the cache.
Define ==
    /\ UNCHANGED <<dqfVars, runVars, bitVars, restVars>>
    /\ stack # <<>>
    /\ Top.pc = "define"
    /\ Len(objs) < MaxObjs
    /\ LET t == Template(Top.output_endian, Top.inverse, Top.mf)
           f == Len(objs) + 1
       IN  IF t.jkdif = "unexpected" THEN Raise("Unexpected value for iterk")
           ELSE IF (t.hfirst # "" /\ t.hlast # "")
                   \/ (t.hfirst = "" /\ t.hlast = "")
           THEN Raise("hfirst/hlast")
           ELSE IF Top.funcname \in DOMAIN cache THEN Raise("add2cache")
           ELSE /\ objs' = Append(objs, NewFunction(Top.funcname, t))
                /\ cache' = Add2Cache(cache, Top.funcname, f)
                /\ stack' = SetTop(stack, [Top EXCEPT !.f = f,
                               !.pc = IF Top.mf = "measured" THEN "example"
                                      ELSE "bind",
                               !.attr = FirstBind])
                /\ UNCHANGED <<result, err, client, pending, calls>>

\* For a measured procedure its example is generated, cached and bound.
DefineExample ==
    /\ UNCHANGED <<dqfVars, runVars, bitVars, restVars>>
    /\ stack # <<>>
    /\ Top.pc = "example"
    /\ Len(objs) < MaxObjs
    /\ LET name == FuncNameExample(Top.funcname)
           fex == Len(objs) + 1
       IN  IF name \in DOMAIN cache THEN Raise("add2cache")
           ELSE IF HasAttr(Top.f, "__example__") THEN Raise("hasattr")
           ELSE /\ objs' = [Append(objs, NewFunction(name,
                                ExampleTemplate(objs[Top.f].src)))
                              EXCEPT ![Top.f].attrs["__example__"] = fex]
                /\ cache' = Add2Cache(cache, name, fex)
                /\ stack' = SetTop(stack, [Top EXCEPT !.pc = "bind"])
                /\ UNCHANGED <<result, err, client, pending, calls>>

\* bind_inverse_and_others calls _get_qft for the next attribute.
BindCall ==
    /\ UNCHANGED <<dqfVars, runVars, bitVars, restVars>>
    /\ stack # <<>>
    /\ Top.pc = "bind"
    /\ Top.attr # "done"
    /\ LET a == BindArgs(Top.attr, Top.output_endian, Top.inverse, Top.mf)
       IN  stack' = Append(SetTop(stack, [Top EXCEPT !.pc = "wait"]),
                           NewFrame(a.output_endian, a.inverse, a.mf))
    /\ UNCHANGED <<cache, objs, result, err, client, pending, calls>>

\* bind_inverse_and_others has returned: _get_qft returns the new procedure.
Finish ==
    /\ UNCHANGED <<dqfVars, runVars, bitVars, restVars>>
    /\ stack # <<>>
    /\ Top.pc = "bind"
    /\ Top.attr = "done"
    /\ IF Cardinality(DOMAIN cache) > 16 THEN Raise("len (cache) <= 16")
       ELSE Deliver(Below, Top.f)

UserCall ==
    \E output_endian \in Endians \cup BadEndians, inverse \in BOOLEAN,
       mf \in Mfs :
        CallGetQft(output_endian, inverse, mf)

\* ---------------------------------------------------- define_qft_functions
\* The arguments the driver is called with.
EndianLists == {<<"auto">>, <<"auto", "opposite">>, <<"auto", "big">>}
InverseLists == {<<FALSE, TRUE>>, <<TRUE>>}
MfLists == {<<"True">>, <<"True", "False", "measure">>,
            <<"measure", "measured">>, <<"False", "measured">>}
\* A namespace holds values of its own (-1) before the call.
Namespaces == {<<>>,
               ("qft_mf_beo" :> -1) @@ ("_iqft_m_leo_example" :> -1)
                   @@ ("iqft_beo" :> -1) @@ ("qft_m_beo" :> -1)}

\* A variant that binds whether or not the name is taken.
RecordAlways(st, f, overwrite) ==
    LET name == objs[f].name
    IN  [st EXCEPT !.namespace = (name :> f) @@ st.namespace,
                   !.accepts = Append(st.accepts, name)]

\* record (f): st holds namespace, accepts, rejects and reject_map.
Record(st, f, overwrite) ==
    LET name == objs[f].name
    IN  IF name \notin DOMAIN st.namespace \/ overwrite
        THEN [st EXCEPT !.namespace = (name :> f) @@ st.namespace,
                        !.accepts = Append(st.accepts, name)]
        ELSE [st EXCEPT !.rejects = Append(st.rejects, name),
                        !.reject_map = (name :> f) @@ st.reject_map]

Recorded == [namespace |-> namespace, accepts |-> accepts,
             rejects |-> rejects, reject_map |-> reject_map]

SetRecorded(st) ==
    /\ namespace' = st.namespace
    /\ accepts' = st.accepts
    /\ rejects' = st.rejects
    /\ reject_map' = st.reject_map

\* The get_qft call of the loop body at position (i, j, k).
LoopFrame(d, i, j, k) ==
    NewFrame(d.output_endians[i], d.inverses[j], d.mfs[k])

\* define_qft_functions is called: the first get_qft call of the loops.
DefineQftFunctions(ns, output_endians, inverses, mfs, include_examples, overwrite) ==
    /\ client = "idle"
    /\ stack = <<>>
    /\ dqf.pc = "none"
    /\ client' = "define"
    /\ namespace' = ns
    /\ accepts' = <<>>
    /\ rejects' = <<>>
    /\ reject_map' = <<>>
    /\ dqf' = [pc |-> "get", output_endians |-> output_endians,
               inverses |-> inverses, mfs |-> mfs,
               include_examples |-> include_examples,
               overwrite |-> overwrite, i |-> 1, j |-> 1, k |-> 1, f |-> 0,
               namespace0 |-> ns, recorded |-> <<>>]
    /\ stack' = <<LoopFrame(dqf', 1, 1, 1)>>
    /\ err' = "none"
    /\ UNCHANGED <<cache, objs, result, pending, calls, runVars, bitVars, restVars>>

\* f = get_qft (...) has returned: record (f), then get_qft is called again
\* for the assertion.
DefineRecord ==
    /\ client = "define"
    /\ stack = <<>>
    /\ dqf.pc = "get"
    /\ SetRecorded(Record(Recorded, result, dqf.overwrite))
    /\ dqf' = [dqf EXCEPT !.pc = "assert", !.f = result,
                          !.recorded = Append(@, result)]
    /\ stack' = <<LoopFrame(dqf, dqf.i, dqf.j, dqf.k)>>
    /\ UNCHANGED <<cache, objs, result, err, pending, calls, client, runVars,
                   bitVars, restVars>>

\* The second get_qft call has returned: the assertion, the example, and
\* the next round of the loops or the return.
DefineNext ==
    /\ client = "define"
    /\ stack = <<>>
    /\ dqf.pc = "assert"
    /\ IF dqf.f # result
       THEN /\ Raise("f is get_qft")
            /\ UNCHANGED <<dqfVars, runVars, bitVars, restVars>>
       ELSE LET f_ex == objs[dqf.f].attrs["__example__"]
                withEx == dqf.include_examples /\ f_ex # 0
                lastK == dqf.k = Len(dqf.mfs)
                lastJ == dqf.j = Len(dqf.inverses)
                lastI == dqf.i = Len(dqf.output_endians)
                k == IF lastK THEN 1 ELSE dqf.k + 1
                j == IF ~lastK THEN dqf.j ELSE IF lastJ THEN 1 ELSE dqf.j + 1
                i == IF lastK /\ lastJ THEN dqf.i + 1 ELSE dqf.i
                over == lastK /\ lastJ /\ lastI
            IN  /\ SetRecorded(IF withEx
                               THEN Record(Recorded, f_ex, dqf.overwrite)
                               ELSE Recorded)
                /\ dqf' = [dqf EXCEPT
                              !.pc = IF over THEN "done" ELSE "get",
                              !.i = IF over THEN dqf.i ELSE i,
                              !.j = IF over THEN dqf.j ELSE j,
                              !.k = IF over THEN dqf.k ELSE k,
                              !.recorded = IF withEx THEN Append(@, f_ex)
                                           ELSE @]
                /\ stack' = IF over THEN <<>>
                            ELSE <<LoopFrame(dqf, i, j, k)>>
                /\ client' = IF over THEN "idle" ELSE client
                /\ UNCHANGED <<cache, objs, result, err, pending, calls,
                               runVars, bitVars, restVars>>

DefineCall ==
    \E ns \in Namespaces, output_endians \in EndianLists,
       inverses \in InverseLists, mfs \in MfLists,
       include_examples \in BOOLEAN, overwrite \in BOOLEAN :
        DefineQftFunctions(ns, output_endians, inverses, mfs,
                           include_examples, overwrite)

\* -------------------------------------------- the generated full transform
\* A gate applied to the circuit.  The angle of cp is sign * pi / 2 ^ exp.
Hadamard(q) == [g |-> "h", a |-> q, b |-> q, sign |-> 0, exp |-> 0]
Barrier == [g |-> "barrier", a |-> 0, b |-> 0, sign |-> 0, exp |-> 0]
CPhase(sign, exp, j, k) == [g |-> "cp", a |-> j, b |-> k, sign |-> sign,
                            exp |-> exp]

\* for j in {iterj}
IterJ(t, n) ==
    IF t.iterj = "range (n)" THEN [x \in 1..n |-> x - 1]
                             ELSE [x \in 1..n |-> n - x]

\* A variant that swaps the two ranges.
IterKOther(t, j, n) ==
    IF t.iterk = "range (0, j)" THEN [x \in 1..(n - 1 - j) |-> j + x]
                                ELSE [x \in 1..j |-> x - 1]

\* for k in {iterk}
IterK(t, j, n) ==
    IF t.iterk = "range (0, j)" THEN [x \in 1..j |-> x - 1]
                                ELSE [x \in 1..(n - 1 - j) |-> j + x]

\* {jkdif}
JkDif(t, j, k) == IF t.jkdif = "k - j" THEN k - j ELSE j - k

\* {psign}
PSign(t) == IF t.psign = "-" THEN -1 ELSE 1

\* A variant that applies the Hadamard first in both modes.
FullBodyHFirst(t, j, n) ==
    <<Hadamard(j)>>
    \o [x \in 1..Len(IterK(t, j, n)) |->
           CPhase(PSign(t), JkDif(t, j, IterK(t, j, n)[x]), j,
                  IterK(t, j, n)[x])]

\* The body of the loop over j of a full transform.
FullBody(t, j, n) ==
    (IF t.hfirst # "" THEN <<Hadamard(j)>> ELSE <<>>)
    \o [x \in 1..Len(IterK(t, j, n)) |->
           CPhase(PSign(t), JkDif(t, j, IterK(t, j, n)[x]), j,
                  IterK(t, j, n)[x])]
    \o (IF t.hlast # "" THEN <<Hadamard(j)>> ELSE <<>>)

\* The gates of the rounds x .. n of the loop over j.
RECURSIVE FullFrom(_, _, _)
FullFrom(t, x, n) ==
    IF x > n THEN <<>>
    ELSE FullBody(t, IterJ(t, n)[x], n) \o FullFrom(t, x + 1, n)

\* The generated procedure funcname (qc, n) of an off or friendly transform.
FullTransform(t, n) == FullFrom(t, 1, n)

\* ------------------------------------------ the generated measured transform
\* qc.p (angle, i).c_if (creg [k], 1): the phase gate on qubit a, applied
\* when the classical bit b is 1; and qc.measure (i, creg [j]).
CondPhase(sign, exp, i, k) == [g |-> "p", a |-> i, b |-> k, sign |-> sign,
                               exp |-> exp]
Measure(i, j) == [g |-> "measure", a |-> i, b |-> j, sign |-> 0, exp |-> 0]

\* A variant that applies the Hadamard before the rotations.
SingleQubitHFirst(t, i, j, n) ==
    <<Hadamard(i)>>
    \o [x \in 1..Len(IterK(t, j, n)) |->
           CondPhase(PSign(t), JkDif(t, j, IterK(t, j, n)[x]), i,
                     IterK(t, j, n)[x])]
    \o <<Measure(i, j)>>

\* The generated procedure funcname (qc, i, creg, j, n) of a measured
\* transform.
SingleQubit(t, i, j, n) ==
    [x \in 1..Len(IterK(t, j, n)) |->
        CondPhase(PSign(t), JkDif(t, j, IterK(t, j, n)[x]), i,
                  IterK(t, j, n)[x])]
    \o <<Hadamard(i), Measure(i, j)>>

\* ------------------------------------------------------- the round trip
\* The circuit of n qubits is created and get_qft is called for it.
RoundTripGet(n, output_endian, inverse, mf) ==
    /\ client = "idle"
    /\ stack = <<>>
    /\ run.pc = "none"
    /\ client' = "run"
    /\ run' = [run EXCEPT !.pc = "get", !.n = n]
    /\ qc' = <<>>
    /\ stack' = <<NewFrame(output_endian, inverse, mf)>>
    /\ err' = "none"
    /\ UNCHANGED <<cache, objs, result, pending, calls, dqfVars, bitVars, restVars>>

\* qft = get_qft (...) has returned a full transform: iqft = qft.__inverse__
\* and qft (qc, n).
RoundTripForward ==
    /\ client = "run"
    /\ stack = <<>>
    /\ run.pc = "get"
    /\ objs[result].src.kind = "full"
    /\ run' = [run EXCEPT !.pc = "forward", !.f = result,
                          !.g = objs[result].attrs["__inverse__"]]
    /\ qc' = qc \o FullTransform(objs[result].src, run.n)
    /\ UNCHANGED <<qftVars, userVars, dqfVars, bitVars, restVars>>

\* qc.barrier () and iqft (qc, n).
RoundTripInverse ==
    /\ client = "run"
    /\ run.pc = "forward"
    /\ run.g # 0
    /\ run' = [run EXCEPT !.pc = "done"]
    /\ qc' = qc \o <<Barrier>> \o FullTransform(objs[run.g].src, run.n)
    /\ client' = "idle"
    /\ UNCHANGED <<qftVars, pending, calls, dqfVars, bitVars, restVars>>

\* qft = get_qft (...) has returned a friendly transform:
\* iqft = qft.__inverse__.__other_mf__.__example__, qft (qc, n),
\* qc.barrier () and the call iqft (qc, c, n) with a register c of n bits.
ExampleForward ==
    /\ client = "run"
    /\ stack = <<>>
    /\ run.pc = "get"
    /\ objs[result].src.kind = "full"
    /\ objs[result].src.hlast # ""
    /\ LET inv == objs[result].attrs["__inverse__"]
           m == IF inv = 0 THEN 0 ELSE objs[inv].attrs["__other_mf__"]
           ex == IF m = 0 THEN 0 ELSE objs[m].attrs["__example__"]
       IN  /\ ex # 0
           /\ run' = [run EXCEPT !.pc = "example", !.f = result, !.m = m,
                                 !.g = ex, !.x = 1]
    /\ qc' = qc \o FullTransform(objs[result].src, run.n) \o <<Barrier>>
    /\ UNCHANGED <<qftVars, userVars, dqfVars, bitVars, restVars>>

\* One round of the loop of the example: funcname (qc, j, creg, j, n).
ExampleStep ==
    /\ client = "run"
    /\ run.pc = "example"
    /\ run.x <= run.n
    /\ LET j == IterJ(objs[run.g].src, run.n)[run.x]
       IN  qc' = qc \o SingleQubit(objs[run.m].src, j, j, run.n)
    /\ run' = [run EXCEPT !.x = @ + 1,
                          !.pc = IF run.x = run.n THEN "returned" ELSE @]
    /\ client' = IF run.x = run.n THEN "idle" ELSE client
    /\ UNCHANGED <<qftVars, pending, calls, dqfVars, bitVars, restVars>>

\* ------------------------------------------------------ clbit_label_to_mii
\* A classical bit label is (name, index), and res.header.clbit_labels is
\* a sequence of labels.  The result object r is the sequence of the label
\* sequences of its experiments.  A dict is a function; the key name of
\* the returned table is written <<name>>.
LabelNames == {"a", "b"}
Labels == LabelNames \X {0, 1, 2}
LabelSeqs == UNION {[1..m -> Labels] : m \in 0..MaxLabels}

\* The result object of one experiment, and that of two experiments.
OneResult(labels) == <<labels>>
TwoResults(labels, c) ==
    <<SubSeq(labels, 1, c), SubSeq(labels, c + 1, Len(labels))>>

\* d [k] = v
Put(d, k, v) == (k :> v) @@ d

\* A variant that leaves no room for the separator between two registers.
LabelStepNoSeparator(st, label) ==
    [ans |-> Put(st.ans, label, st.i),
     order |-> IF label \in DOMAIN st.ans THEN st.order
               ELSE Append(st.order, label),
     size |-> IF label[2] = 0 /\ st.i # 0 /\ st.last_key # <<>>
              THEN Put(st.size, st.last_key[1], st.last_key[2] + 1)
              ELSE st.size,
     i |-> st.i + 1,
     last_key |-> label]

\* One round of the loop over the labels of an experiment.
LabelStep(st, label) ==
    LET newreg == label[2] = 0 /\ st.i # 0
        i == IF newreg THEN st.i + 1 ELSE st.i
    IN  [ans |-> Put(st.ans, label, i),
         order |-> IF label \in DOMAIN st.ans THEN st.order
                   ELSE Append(st.order, label),
         size |-> IF newreg /\ st.last_key # <<>>
                  THEN Put(st.size, st.last_key[1], st.last_key[2] + 1)
                  ELSE st.size,
         i |-> i + 1,
         last_key |-> label]

RECURSIVE ScanLabels(_, _, _)
ScanLabels(st, labels, x) ==
    IF x > Len(labels) THEN st
    ELSE ScanLabels(LabelStep(st, labels[x]), labels, x + 1)

\* One round of the loop over r.results.
ScanResult(st, labels) ==
    LET s1 == ScanLabels([st EXCEPT !.last_key = <<>>], labels, 1)
    IN  IF s1.last_key # <<>>
        THEN [s1 EXCEPT !.size = Put(@, s1.last_key[1], s1.last_key[2] + 1)]
        ELSE s1

RECURSIVE ScanResults(_, _, _)
ScanResults(st, r, x) ==
    IF x > Len(r) THEN st
    ELSE ScanResults(ScanResult(st, r[x]), r, x + 1)

\* A variant that keeps the positions counted from the first label.
FromTheEndNot(ans, i) == ans

\* A variant that does not take one off N.
FromTheEndOffByOne(ans, i) == [key \in DOMAIN ans |-> i - ans[key]]

\* ans [key] = N - ans [key]
FromTheEnd(ans, i) ==
    LET N == IF i # 0 THEN i - 1 ELSE i
    IN  [key \in DOMAIN ans |-> N - ans[key]]

\* What the loop that builds toextend raises, if anything: the keys are
\* visited in the order they were inserted.
RECURSIVE ExtendError(_, _, _)
ExtendError(order, size, x) ==
    IF x > Len(order) THEN "none"
    ELSE IF order[x][1] \notin DOMAIN size THEN "KeyError"
    ELSE IF ~ (0 < size[order[x][1]] - order[x][2]
               /\ size[order[x][1]] - order[x][2] <= size[order[x][1]])
    THEN "AssertionError"
    ELSE ExtendError(order, size, x + 1)

\* A variant whose negative indices run from -N - 1 through -2.
ToExtendShifted(ans, size) ==
    [key \in {<<k[1], k[2] - size[k[1]] - 1>> : k \in DOMAIN ans} |->
        ans[<<key[1], key[2] + size[key[1]] + 1>>]]

\* toextend [(name, index - N)] = ans [key]
ToExtend(ans, size) ==
    [key \in {<<k[1], k[2] - size[k[1]]>> : k \in DOMAIN ans} |->
        ans[<<key[1], key[2] + size[key[1]]>>]]

\* ans [name] = ans [(name, 0)] for the registers of size 1
Singles(ans, size) ==
    [key \in {<<name>> : name \in {nm \in DOMAIN size : size[nm] = 1}} |->
        ans[<<key[1], 0>>]]

NoMii == [done |-> FALSE, err |-> "none", table |-> <<>>]

\* clbit_label_to_mii (r): the table returned or the exception raised.
ClbitLabelToMii(r) ==
    LET st == ScanResults([ans |-> <<>>, order |-> <<>>, size |-> <<>>,
                           i |-> 0, last_key |-> <<>>], r, 1)
        ans == FromTheEnd(st.ans, st.i)
        e == ExtendError(st.order, st.size, 1)
    IN  IF e # "none" THEN [done |-> TRUE, err |-> e, table |-> <<>>]
        ELSE [done |-> TRUE, err |-> "none",
              table |-> Singles(ans, st.size) @@ ToExtend(ans, st.size)
                        @@ ans]

\* The call clbit_label_to_mii (r).
CallClbitLabelToMii ==
    /\ ~ mii.done
    /\ mii' = ClbitLabelToMii(job)
    /\ UNCHANGED <<qftVars, userVars, dqfVars, runVars, job, memory, mix,
                   counts, restVars>>

\* -------------------------------------------------------- memory_item_index
\* A register name is a sequence of characters, so that one name can be
\* looked for in another.  A bit specification is <<name, index>> for the
\* tuple (name, index) and <<name>> for the name alone.  An exception is
\* its type, its message and the name the message quotes.
NoError == [type |-> "none", msg |-> "", arg |-> <<>>]
Error(type, msg, arg) == [type |-> type, msg |-> msg, arg |-> arg]

\* name in regname
IsIn(name, regname) ==
    \E o \in 0..(Len(regname) - Len(name)) :
        SubSeq(regname, o + 1, o + Len(name)) = name

\* The register a name stands for, or the exception raised.
ResolveName(regnames, name) ==
    IF name \in regnames THEN [err |-> NoError, regname |-> name]
    ELSE LET cands == {regname \in regnames : IsIn(name, regname)}
         IN  IF Cardinality(cands) # 1
             THEN [err |-> Error("ValueError",
                  "does not complete a classical bit register name (uniquely)",
                  name),
                   regname |-> <<>>]
             ELSE [err |-> NoError,
                   regname |-> CHOOSE regname \in cands : TRUE]

\* The loop over clbitspec, from the spec at x on.
RECURSIVE IndexFrom(_, _, _, _)
IndexFrom(table, clbitspec, x, ans) ==
    IF x > Len(clbitspec) THEN [err |-> NoError, at |-> ans]
    ELSE LET spec == clbitspec[x]
             key_is_tuple == Len(spec) = 2
             res == ResolveName({key[1] : key \in DOMAIN table}, spec[1])
             key == IF key_is_tuple THEN <<res.regname, spec[2]>>
                    ELSE <<res.regname>>
         IN  IF res.err # NoError THEN [err |-> res.err, at |-> <<>>]
             ELSE IF key \notin DOMAIN table
             THEN [err |-> Error("KeyError", "", res.regname), at |-> <<>>]
             ELSE IndexFrom(table, clbitspec, x + 1, Append(ans, table[key]))

\* memory_item_index (r, * clbitspec): the positions in at, returned as an
\* int when there is one spec and as a tuple otherwise, or the exception.
MemoryItemIndex(r, clbitspec) ==
    IF clbitspec = <<>>
    THEN [err |-> Error("ValueError",
              "At least one classical bit specification must be provided",
              <<>>),
          single |-> FALSE, at |-> <<>>]
    ELSE LET t == ClbitLabelToMii(r)
             ans == IndexFrom(t.table, clbitspec, 1, <<>>)
         IN  IF t.err # "none"
             THEN [err |-> Error(t.err, "", <<>>), single |-> FALSE,
                   at |-> <<>>]
             ELSE [err |-> ans.err, single |-> Len(ans.at) = 1,
                   at |-> ans.at]

\* ------------------------------------------------------------ gather_counts
\* A memory string is a sequence of the characters "0", "1" and " ".  The
\* argument keys is None, a mapping or an iterable of keys, written as the
\* kind and the mapping, with value 0 for the keys of an iterable.
NoKeys == [kind |-> "None", map |-> <<>>]

\* Counter (it)
Tally(it) ==
    [k \in {it[x] : x \in 1..Len(it)} |->
        Cardinality({x \in 1..Len(it) : it[x] = k})]

\* ans.update (keys)
Update(ans, keys) ==
    [k \in DOMAIN ans \cup DOMAIN keys |->
        (IF k \in DOMAIN ans THEN ans[k] ELSE 0)
        + (IF k \in DOMAIN keys THEN keys[k] ELSE 0)]

\* What take (k, i) raises for the indices from x on, if anything.
RECURSIVE TakeError(_, _, _)
TakeError(k, indices, x) ==
    IF x > Len(indices) THEN NoError
    ELSE IF indices[x] >= Len(k) THEN Error("IndexError", "", <<>>)
    ELSE IF k[indices[x] + 1] = " " THEN Error("AssertionError", "", <<>>)
    ELSE TakeError(k, indices, x + 1)

\* What the generator raises for the memory strings from x on, if anything.
RECURSIVE ItError(_, _, _)
ItError(m, indices, x) ==
    IF x > Len(m) THEN NoError
    ELSE IF TakeError(m[x], indices, 1) # NoError
    THEN TakeError(m[x], indices, 1)
    ELSE ItError(m, indices, x + 1)

\* joinstr (take (k, i) for i in indices)
Reduce(k, indices) == [x \in 1..Len(indices) |-> k[indices[x] + 1]]

\* A predicate is the expression that expand returns for it: one or two
\* operands, alone or joined by not, and, or.  An operand is a call of the
\* accessor, _ (name) or _ (name, index), written by its bit specification;
\* or such a call compared with a character, _ (name, index) == 'ch'; or
\* a character of the memory string compared, x [at] == 'ch'.  A value is a
\* character or "True" or "False".
NoPredicate == [op |-> "None", operands |-> <<>>]
Bool(b) == IF b THEN "True" ELSE "False"
Value(value) == [err |-> NoError, value |-> value]
Raised(e) == [err |-> e, value |-> ""]

\* What _taker returns or raises for the memory string x, once
\* memory_item_index has answered with index.
TakerAt(x, index) ==
    IF index.err # NoError THEN Raised(index.err)
    ELSE IF TakeError(x, index.at, 1) # NoError
    THEN Raised(TakeError(x, index.at, 1))
    ELSE Value(x[index.at[1] + 1])

\* _taker (regname, index) with namespace ['x'] = x
Taker(r, x, spec) == TakerAt(x, MemoryItemIndex(r, <<spec>>))

\* An operand that calls the accessor, once the call has given bit.
OperandOf(o, bit) ==
    IF o.kind = "bit" \/ bit.err # NoError THEN bit
    ELSE Value(Bool(bit.value = o.ch))

\* The value of an operand for the memory string x.
Operand(r, x, o) ==
    IF o.kind = "item"
    THEN IF o.at >= Len(x) THEN Raised(Error("IndexError", "", <<>>))
         ELSE Value(Bool(x[o.at + 1] = o.ch))
    ELSE OperandOf(o, Taker(r, x, o.spec))

\* The value of the predicate whose first operand has the value l: the
\* second operand is evaluated for and after a true value and for or after
\* a false one.
PredicateOf(r, x, predicate, l) ==
    IF l.err # NoError \/ predicate.op = "only" THEN l
    ELSE IF predicate.op = "not" THEN Value(Bool(~ Truthy(l.value)))
    ELSE IF (predicate.op = "and") = Truthy(l.value)
    THEN Operand(r, x, predicate.operands[2])
    ELSE l

\* predicate_f (x): eval (code, namespace, namespace)
PredicateF(r, x, predicate) ==
    PredicateOf(r, x, predicate, Operand(r, x, predicate.operands[1]))

\* The generator over the memory strings from x on that predicate_f keeps,
\* reduced to indices unless indices is None: what it yields, or the
\* exception it raises.  KeptOf is the turn for m[x], for which predicate_f
\* has answered with keep.
RECURSIVE Kept(_, _, _, _, _, _)
RECURSIVE KeptOf(_, _, _, _, _, _, _)
KeptOf(r, m, indices, predicate, x, it, keep) ==
    IF keep.err # NoError THEN [err |-> keep.err, it |-> <<>>]
    ELSE IF ~ Truthy(keep.value)
    THEN Kept(r, m, indices, predicate, x + 1, it)
    ELSE IF indices.none
    THEN Kept(r, m, indices, predicate, x + 1, Append(it, m[x]))
    ELSE IF TakeError(m[x], indices.at, 1) # NoError
    THEN [err |-> TakeError(m[x], indices.at, 1), it |-> <<>>]
    ELSE Kept(r, m, indices, predicate, x + 1,
              Append(it, Reduce(m[x], indices.at)))

Kept(r, m, indices, predicate, x, it) ==
    IF x > Len(m) THEN [err |-> NoError, it |-> it]
    ELSE KeptOf(r, m, indices, predicate, x, it,
                PredicateF(r, m[x], predicate))

\* The generator without a predicate: every memory string reduced to
\* indices, or the exception raised.
Reduced(m, indices) ==
    IF ItError(m, indices.at, 1) # NoError
    THEN [err |-> ItError(m, indices.at, 1), it |-> <<>>]
    ELSE [err |-> NoError,
          it |-> [x \in 1..Len(m) |-> Reduce(m[x], indices.at)]]

\* indices: None without a bit specification, and else what
\* memory_item_index has answered.
Indices(clbitspec, index) ==
    IF clbitspec = <<>> THEN [none |-> TRUE, err |-> NoError, at |-> <<>>]
    ELSE [none |-> FALSE, err |-> index.err, at |-> index.at]

\* Counter (it), with the keys added, for what the generator gives.
Counted(kept, keys) ==
    IF kept.err # NoError THEN [err |-> kept.err, table |-> <<>>]
    ELSE [err |-> NoError,
          table |-> IF keys.kind # "None" /\ DOMAIN keys.map # {}
                    THEN Update(Tally(kept.it), keys.map)
                    ELSE Tally(kept.it)]

\* gather_counts from the indices on.
GatherFrom(r, m, clbitspec, predicate, keys, indices) ==
    IF indices.err # NoError THEN [err |-> indices.err, table |-> <<>>]
    ELSE IF Len(clbitspec) = 1
    THEN [err |-> Error("TypeError", "'int' object is not iterable", <<>>),
          table |-> <<>>]
    ELSE IF predicate # NoPredicate
    THEN Counted(Kept(r, m, indices, predicate, 1, <<>>), keys)
    ELSE Counted(Reduced(m, indices), keys)

\* gather_counts (r, * clbitspec, predicate = predicate, keys = keys) for a
\* result object whose memory is m: the table returned or the exception
\* raised.
GatherCounts(r, m, clbitspec, predicate, keys) ==
    IF clbitspec = <<>> /\ predicate = NoPredicate
    THEN [err |-> NoError, table |-> Tally(m)]
    ELSE GatherFrom(r, m, clbitspec, predicate, keys,
                    Indices(clbitspec, MemoryItemIndex(r, clbitspec)))

\* The result objects, the bit specifications and the keys of the calls.
Register(name, size) == [x \in 1..size |-> <<name, x - 1>>]
Layouts ==
    {Register(<<"a", "b">>, 2) \o Register(<<"a", "c">>, 1),
     Register(<<"a">>, 2) \o Register(<<"a", "b">>, 1),
     Register(<<"b">>, 3),
     Register(<<"a">>, 1) \o Register(<<"b">>, 1) \o Register(<<"c">>, 1)}
ShotBits == {<<"0", "0", "1">>, <<"0", "1", "0">>}

\* The memory string of a shot: the bits from the one declared last to the
\* one declared first, with a space where the register changes.
RECURSIVE MemoryItem(_, _, _)
MemoryItem(labels, bits, x) ==
    IF x = 0 THEN <<>>
    ELSE <<bits[x]>>
         \o (IF labels[x][2] = 0 /\ x > 1 THEN <<" ">> ELSE <<>>)
         \o MemoryItem(labels, bits, x - 1)

Memories(labels) ==
    UNION {[1..m -> {MemoryItem(labels, bits, Len(labels)) :
                        bits \in ShotBits}] : m \in 0..MaxShots}

SpecNames == {<<"a">>, <<"b">>, <<"x">>}
BitSpecs == {<<name>> : name \in SpecNames} \cup (SpecNames \X {0, 1})
BitSpecLists == UNION {[1..m -> BitSpecs] : m \in 0..MaxSpecs}
KeysArguments ==
    {NoKeys,
     [kind |-> "iterable", map |-> (<<"0">> :> 0) @@ (<<"1", "1">> :> 0)],
     [kind |-> "mapping", map |-> (<<"0">> :> 2) @@ (<<"1", "1">> :> 1)]}

NoMix == [done |-> FALSE, clbitspec |-> <<>>, err |-> NoError,
          single |-> FALSE, at |-> <<>>]
NoCounts == [done |-> FALSE, clbitspec |-> <<>>, predicate |-> NoPredicate,
             keys |-> NoKeys, err |-> NoError, table |-> <<>>]

\* The predicates of the calls, and the bit specifications given with them.
Compared(spec, ch) == [kind |-> "eq", spec |-> spec, at |-> 0, ch |-> ch]
Operands ==
    {Compared(<<(<<"a">>), 0>>, "1"), Compared(<<(<<"b">>)>>, "0"),
     Compared(<<(<<"x">>), 0>>, "1"),
     [kind |-> "bit", spec |-> <<(<<"a">>), 0>>, at |-> 0, ch |-> ""],
     [kind |-> "item", spec |-> <<>>, at |-> 0, ch |-> "1"]}
Predicates ==
    {[op |-> op, operands |-> <<o>>] : op \in {"only", "not"}, o \in Operands}
    \cup {[op |-> op, operands |-> <<l, r>>] :
              op \in {"and", "or"}, l \in Operands, r \in Operands}
WhereSpecs == {<<(<<"a">>), 0>>, <<(<<"b">>)>>}
WhereLists == UNION {[1..m -> WhereSpecs] : m \in 0..2}

\* The call memory_item_index (r, * clbitspec).
CallMemoryItemIndex(clbitspec) ==
    /\ ~ mix.done /\ ~ counts.done
    /\ LET ans == MemoryItemIndex(job, clbitspec)
       IN  mix' = [done |-> TRUE, clbitspec |-> clbitspec, err |-> ans.err,
                   single |-> ans.single, at |-> ans.at]
    /\ UNCHANGED <<qftVars, userVars, dqfVars, runVars, job, mii, memory,
                   counts, restVars>>

\* The call gather_counts (r, * clbitspec, predicate = predicate,
\* keys = keys).
CallGatherCounts(clbitspec, predicate, keys) ==
    /\ ~ mix.done /\ ~ counts.done
    /\ LET ans == GatherCounts(job, memory, clbitspec, predicate, keys)
       IN  counts' = [done |-> TRUE, clbitspec |-> clbitspec,
                      predicate |-> predicate, keys |-> keys,
                      err |-> ans.err, table |-> ans.table]
    /\ UNCHANGED <<qftVars, userVars, dqfVars, runVars, job, mii, memory,
                   mix, restVars>>

\* ------------------------------------------------------- expand and tokenize
\* A text is a sequence of characters.  The source s is written as the
\* sequence of its lexemes: a name, a quoted string, the markers | and @,
\* a minus sign, a decimal and a non-decimal number, a run of spaces, a line
\* break.  A token is its type, its text, and the line and column of its
\* start and of its end; every token of these sources lies in one line.
Letters == {"_", "a", "b", "f"}
Digits == {"0", "1", "5"}
Spaces(n) == [x \in 1..n |-> " "]
Lexemes ==
    {<<"a">>, <<"'", "b", "'">>, <<"|">>, <<"@">>, <<"-">>, <<"0">>,
     <<"1", ".", "5">>, Spaces(SpaceWidth), <<"\n">>}
FuncNames == {<<"_">>, <<"f", "(">>, <<"1", "a">>}

IsSpace(l) == l[1] = " "
IsBreak(l) == l = <<"\n">>
TypeOf(l) ==
    IF l[1] \in Letters THEN "NAME"
    ELSE IF l[1] \in Digits THEN "NUMBER"
    ELSE IF l[1] = "'" THEN "STRING"
    ELSE IF IsBreak(l) THEN "NEWLINE"
    ELSE "OP"

\* The sources whose lexemes are the tokens the tokenizer finds in their
\* text: no name or number runs into the next one, the text is not
\* indented and has no empty line.
Realisable(s) ==
    /\ s # <<>> => ~ IsSpace(s[1]) /\ ~ IsBreak(s[1]) /\ ~ IsBreak(s[Len(s)])
    /\ \A x \in 1..(Len(s) - 1) :
           /\ IsBreak(s[x]) => ~ IsSpace(s[x + 1]) /\ ~ IsBreak(s[x + 1])
           /\ TypeOf(s[x]) \in {"NAME", "NUMBER"} =>
                  TypeOf(s[x + 1]) \notin {"NAME", "NUMBER"}

Token(type, string, ln, i_s, i) ==
    [type |-> type, string |-> string, start |-> <<ln, i_s>>, end |-> <<ln, i>>]
NoToken == Token("None", <<>>, 0, 0, 0)

\* generate_tokens (StringIO (s).readline), from lexeme x on at (ln, col)
RECURSIVE GenerateTokens(_, _, _, _)
GenerateTokens(s, x, ln, col) ==
    IF x > Len(s)
    THEN IF s = <<>> THEN <<Token("ENDMARKER", <<>>, 1, 0, 0)>>
         ELSE <<Token("NEWLINE", <<>>, ln, col, col + 1),
                Token("ENDMARKER", <<>>, ln + 1, 0, 0)>>
    ELSE IF IsSpace(s[x]) THEN GenerateTokens(s, x + 1, ln, col + Len(s[x]))
    ELSE IF IsBreak(s[x])
    THEN <<Token("NEWLINE", s[x], ln, col, col + 1)>>
         \o GenerateTokens(s, x + 1, ln + 1, 0)
    ELSE <<Token(TypeOf(s[x]), s[x], ln, col, col + Len(s[x]))>>
         \o GenerateTokens(s, x + 1, ln, col + Len(s[x]))

magic_ops == {<<"|">>, <<"@">>}
pretypes == {"NAME", "STRING"}
posttypes == {"NUMBER"}

\* re.compile ('^[a-zA-Z_][a-z_A-Z0-9]*').match
test_funcname(funcname) == funcname # <<>> /\ funcname[1] \in Letters

\* re.compile ('^[0-9]+$').match
test_number(string) ==
    string # <<>> /\ \A x \in 1..Len(string) : string[x] \in Digits

\* repr (ti.string)
Repr(string) == <<"'">> \o string \o <<"'">>

\* A variant that moves the start of the token and leaves its end.
gettiStart(ti, offset) ==
    IF ti.start[1] \notin DOMAIN offset THEN ti
    ELSE [ti EXCEPT !.start = <<ti.start[1], ti.start[2] + offset[ti.start[1]]>>]

\* getti (ti, offset), for a token that lies in one line
getti(ti, offset) ==
    IF ti.start[1] \notin DOMAIN offset THEN ti
    ELSE [ti EXCEPT !.start = <<ti.start[1], ti.start[2] + offset[ti.start[1]]>>,
                    !.end = <<ti.end[1], ti.end[2] + offset[ti.end[1]]>>]

\* get_next (): the token, if there is one, and what is left
GetNext(returned, it) ==
    IF returned # <<>>
    THEN [some |-> TRUE, ti |-> Head(returned), returned |-> Tail(returned),
          it |-> it]
    ELSE IF it # <<>>
    THEN [some |-> TRUE, ti |-> Head(it), returned |-> returned,
          it |-> Tail(it)]
    ELSE [some |-> FALSE, ti |-> NoToken, returned |-> returned, it |-> it]

\* return_ti (ti)
ReturnTi(ti, returned) == <<ti>> \o returned

\* offset.get (ln, 0)
OffsetGet(offset, ln) == IF ln \in DOMAIN offset THEN offset[ln] ELSE 0

\* The generator of tokenize (s, funcname): where it is, the tokens still to
\* come from generate_tokens, the tokens returned to it, the offset of each
\* edited line, the tokens yielded, the exception raised, and the text that
\* untokenize makes of the tokens.
NoGenerator ==
    [pc |-> "none", s |-> <<>>, funcname |-> <<>>, it |-> <<>>,
     returned |-> <<>>, offset |-> <<>>, out |-> <<>>, err |-> "none",
     text |-> <<>>]
NewGenerator(s, funcname) ==
    [NoGenerator EXCEPT !.pc = "created", !.s = s, !.funcname = funcname]
Raises(g, type, yielded) ==
    [g EXCEPT !.pc = "raised", !.err = type, !.out = @ \o yielded]

\* The first step of the generator: the test of funcname.
Begin(g) ==
    IF ~ test_funcname(g.funcname) THEN Raises(g, "ValueError", <<>>)
    ELSE [g EXCEPT !.pc = "running", !.it = GenerateTokens(g.s, 1, 1, 0)]

\* The rest of an iteration of the loop once ti and the marker n2.ti are
\* found to expand.
Found(g, ti, n2) ==
    LET regname == IF ti.type = "STRING" THEN ti.string ELSE Repr(ti.string)
        ln == ti.start[1]
        i_e == n2.ti.end[2]
        i1 == ti.start[2] + Len(g.funcname)
        i2 == i1 + 1
        i3 == i2 + Len(regname)
        i == i3 + 1
        head == <<Token("NAME", g.funcname, ln, ti.start[2], i1),
                  Token("OP", <<"(">>, ln, i1, i2),
                  Token("STRING", regname, ln, i2, i3)>>
        n3 == GetNext(n2.returned, n2.it)
        ti3 == n3.ti
        here == n3.some /\ ti3.end[1] = ln
        minus == here /\ ti3.type = "OP" /\ ti3.string = <<"-">>
        n4 == GetNext(n3.returned, n3.it)
        ti4 == n4.ti
        doing_number ==
            IF ~ here THEN FALSE
            ELSE IF minus
            THEN /\ n4.some
                 /\ ti4.end[1] = ln
                 /\ ti4.type \in posttypes
                 /\ test_number(ti4.string)
            ELSE ti3.type \in posttypes /\ test_number(ti3.string)
        left ==
            IF ~ n3.some THEN n3
            ELSE IF doing_number THEN (IF minus THEN n4 ELSE n3)
            ELSE IF minus /\ n4.some
            THEN [n4 EXCEPT !.returned = ReturnTi(ti3, ReturnTi(ti4, @))]
            ELSE [n3 EXCEPT !.returned = ReturnTi(ti3, @)]
        offset2 == (ln :> (i - i_e + 1)) @@ g.offset
        number == IF minus THEN <<getti(ti3, offset2), getti(ti4, offset2)>>
                  ELSE <<getti(ti3, offset2)>>
        j_s == number[Len(number)].end[2]
        j_e == (IF minus THEN ti4 ELSE ti3).end[2]
        comma == Token("OP", <<",">>, ln, i3, i)
    IN  IF ~ (i > i_e + OffsetGet(g.offset, ln))
        THEN Raises(g, "AssertionError", head)
        ELSE IF ~ doing_number
        THEN [g EXCEPT !.returned = left.returned, !.it = left.it,
                       !.offset = (ln :> (i - i_e)) @@ @,
                       !.out = @ \o head \o <<Token("OP", <<")">>, ln, i3, i)>>]
        ELSE IF ~ (j_s + 1 > j_e)
        THEN Raises(g, "AssertionError", head \o <<comma>> \o number)
        ELSE [g EXCEPT !.returned = left.returned, !.it = left.it,
                       !.offset = (ln :> (j_s + 1 - j_e)) @@ @,
                       !.out = @ \o head \o <<comma>> \o number
                               \o <<Token("OP", <<")">>, ln, j_s, j_s + 1)>>]

\* One iteration of the loop of the generator.
Loop(g) ==
    LET n1 == GetNext(g.returned, g.it)
        ti == getti(n1.ti, g.offset)
        n2 == GetNext(n1.returned, n1.it)
    IN  IF ~ n1.some THEN [g EXCEPT !.pc = "returned"]
        ELSE IF n1.ti = NoToken THEN Raises(g, "AttributeError", <<>>)
        ELSE IF ~ (ti.type \in pretypes /\ ti.start[1] = ti.end[1])
        THEN [g EXCEPT !.returned = n1.returned, !.it = n1.it,
                       !.out = Append(@, ti)]
        ELSE IF ~ (/\ n2.some
                   /\ n2.ti.type = "OP"
                   /\ n2.ti.string \in magic_ops
                   /\ n2.ti.end[1] = ti.start[1])
        THEN [g EXCEPT !.returned = ReturnTi(n2.ti, n2.returned),
                       !.it = n2.it, !.out = Append(@, ti)]
        ELSE Found(g, ti, n2)

\* untokenize, from token x on: the text, or ValueError for a token that
\* starts before the end of the one before it.
RECURSIVE Untokenize(_, _, _, _, _)
Untokenize(out, x, prev_row, prev_col, text) ==
    IF x > Len(out) \/ out[x].type = "ENDMARKER"
    THEN [err |-> "none", text |-> text]
    ELSE LET row == out[x].start[1]
             col == out[x].start[2]
             row_offset == row - prev_row
             newline == out[x].type = "NEWLINE"
         IN  IF row < prev_row \/ (row = prev_row /\ col < prev_col)
             THEN [err |-> "ValueError", text |-> <<>>]
             ELSE Untokenize(out, x + 1,
                      out[x].end[1] + (IF newline THEN 1 ELSE 0),
                      IF newline THEN 0 ELSE out[x].end[2],
                      text
                      \o [y \in 1..(2 * row_offset) |->
                             IF y % 2 = 1 THEN "\\" ELSE "\n"]
                      \o Spaces(IF row_offset > 0 THEN col ELSE col - prev_col)
                      \o out[x].string)

\* The generator run to its end, and expand (s, funcname).
RECURSIVE Exhaust(_)
Exhaust(g) ==
    IF g.pc = "created" THEN Exhaust(Begin(g))
    ELSE IF g.pc = "running" THEN Exhaust(Loop(g))
    ELSE g
Join(g) ==
    LET ans == Untokenize(g.out, 1, 1, 0, <<>>)
    IN  IF ans.err # "none" THEN Raises(g, ans.err, <<>>)
        ELSE [g EXCEPT !.pc = "expanded", !.text = ans.text]
Expand(s, funcname) ==
    LET g == Exhaust(NewGenerator(s, funcname))
    IN  IF g.pc = "raised" THEN g ELSE Join(g)

\* next (tokenize (s, funcname)) for the first time
TokenizeBegin ==
    /\ gen.pc = "created"
    /\ gen' = Begin(gen)
    /\ UNCHANGED <<qftVars, userVars, dqfVars, runVars, bitVars, prov, monVars,
                   wire>>

\* The generator asked for its tokens up to the end of an iteration.
TokenizeLoop ==
    /\ gen.pc = "running"
    /\ gen' = Loop(gen)
    /\ UNCHANGED <<qftVars, userVars, dqfVars, runVars, bitVars, prov, monVars,
                   wire>>

\* expand: untokenize on the tokens of the generator that has returned
ExpandJoin ==
    /\ gen.pc = "returned"
    /\ gen' = Join(gen)
    /\ UNCHANGED <<qftVars, userVars, dqfVars, runVars, bitVars, prov, monVars,
                   wire>>

\* -------------------------------------------------------------- get_provider
\* A provider is its identity and the token and the instance of its active
\* account; identity 0 is None.  The argument provider is None, 'cached',
\* 'renew', another value that is no provider, or a provider instance.
NoProvider == [id |-> 0, token |-> "None", instance |-> "None"]
Tokens == {"None", "t1", "t2"}
Instances == {"None", "i1", "i2"}

\* The account that IBMProvider takes what it is not given from.
SavedAccount == [token |-> "t1", instance |-> "i1"]

\* IBMProvider (token = token, instance = instance), as the id-th provider
IBMProvider(id, token, instance) ==
    [id |-> id,
     token |-> IF token = "None" THEN SavedAccount.token ELSE token,
     instance |-> IF instance = "None" THEN SavedAccount.instance
                  ELSE instance]

\* A provider instance that the caller has from elsewhere.
Foreign == IBMProvider(MaxProviders + 1, "t2", "i2")
ProviderArguments ==
    {[kind |-> kind, obj |-> NoProvider] :
        kind \in {"None", "cached", "renew", "invalid"}}
    \cup {[kind |-> "instance", obj |-> Foreign]}

\* A variant that looks at the token alone.
HasValidCacheValueByToken(cached, token, instance) ==
    /\ cached # NoProvider
    /\ token = "None" \/ cached.token = token

\* has_valid_cache_value
HasValidCacheValue(cached, token, instance) ==
    /\ cached # NoProvider
    /\ token = "None" \/ cached.token = token
    /\ instance = "None" \/ cached.instance = instance

\* _get_provider (provider, token, instance) with _cached = cached, when
\* made providers have been provisioned so far and IBMProvider returns (ok)
\* or raises: the new _cached, what is returned, and the exception.
GetProvider(cached, made, provider, token, instance, ok) ==
    LET renewed == IF provider.kind = "renew" THEN NoProvider ELSE cached
        kind == IF provider.kind = "renew" THEN "None" ELSE provider.kind
        has_valid_cache_value == HasValidCacheValue(renewed, token, instance)
        keep == [cached |-> renewed, made |-> made, ret |-> NoProvider,
                 err |-> "none"]
    IN  IF provider.kind = "instance"
        THEN [cached |-> cached, made |-> made, ret |-> provider.obj,
              err |-> "none"]
        ELSE IF kind = "cached"
        THEN [keep EXCEPT !.ret = IF has_valid_cache_value THEN renewed
                                  ELSE NoProvider]
        ELSE IF kind # "None" THEN [keep EXCEPT !.err = "ValueError"]
        ELSE IF has_valid_cache_value THEN [keep EXCEPT !.ret = renewed]
        ELSE IF ~ ok THEN [keep EXCEPT !.err = "IBMProviderError"]
        ELSE [cached |-> IBMProvider(made + 1, token, instance),
              made |-> made + 1,
              ret |-> IBMProvider(made + 1, token, instance),
              err |-> "none"]

NoCall == [provider |-> [kind |-> "None", obj |-> NoProvider],
           token |-> "None", instance |-> "None"]
NoProv == [cached |-> NoProvider, made |-> 0, called |-> FALSE,
           call |-> NoCall, ret |-> NoProvider, err |-> "none"]

\* The call get_provider (provider, token, instance).
CallGetProvider(provider, token, instance, ok) ==
    LET ans == GetProvider(prov.cached, prov.made, provider, token, instance,
                           ok)
    IN  /\ ans.made <= MaxProviders
        /\ prov' = [cached |-> ans.cached, made |-> ans.made, called |-> TRUE,
                    call |-> [provider |-> provider, token |-> token,
                              instance |-> instance],
                    ret |-> ans.ret, err |-> ans.err]
        /\ UNCHANGED <<qftVars, userVars, dqfVars, runVars, bitVars, gen,
                       monVars, wire>>

\* -------------------------------------------------------------- jobs_monitor
\* Job ids are texts; a job is known by its id, so that a collection with
\* the same id twice holds the same job twice.
JobA == <<"a", "b", "c", "d", "e", "f", "g", "h">>
JobB == <<"a", "b", "c", "d", "e", "f", "g", "x">>
JobC == <<"x", "b", "c", "d", "e", "f", "g", "h">>
JobIds == {JobA, JobB, JobC}
JobStatuses == {"QUEUED", "RUNNING", "DONE", "CANCELLED", "ERROR"}
ended == {"DONE", "CANCELLED", "ERROR"}
Intervals == {"None", "1"}
MinLens == {4, 6}

\* j [:n]
Prefix(j, n) == SubSeq(j, 1, IF n < Len(j) THEN n ELSE Len(j))

\* job_ids_short
JobIdsShort(job_ids, job_id_minlen) ==
    [k \in DOMAIN job_ids |-> Prefix(job_ids[k], job_id_minlen)]

\* set (job_ids_short)
SetOf(seq) == {seq[k] : k \in DOMAIN seq}

\* job_id_minlen += 2.  Once the length is beyond every job id the slices
\* stay what they are, and from MaxMinLen on the model keeps the number.
Lengthened(job_id_minlen) ==
    IF job_id_minlen + 2 > MaxMinLen THEN job_id_minlen
    ELSE job_id_minlen + 2

\* state, from status.name and the queue position: with a queue position
\* the text is QUEUED(position; time left), written here with position 1.
StateText(name, queue_position) ==
    IF name = "QUEUED" /\ queue_position # "None" THEN "QUEUED(1)" ELSE name

NoMon == [pc |-> "none", jobs |-> <<>>, states |-> <<>>,
          job_id_minlen |-> 6, job_ids_short |-> <<>>, interval |-> "5",
          i |-> 0, all_ended |-> FALSE, asked |-> 0]

\* jobs_monitor (jobs, interval, job_id_minlen = job_id_minlen), up to the
\* first loop; status says what each job reports when the call is made.
CallJobsMonitor(jobs, status, interval, job_id_minlen) ==
    /\ mon.pc = "none"
    /\ mon' = [NoMon EXCEPT !.pc = "slice", !.jobs = jobs,
                            !.states = [k \in DOMAIN jobs |-> "None"],
                            !.job_id_minlen = job_id_minlen,
                            !.interval = IF interval = "None" THEN "5"
                                         ELSE interval]
    /\ world' = status
    /\ UNCHANGED <<qftVars, userVars, dqfVars, runVars, bitVars, gen, prov,
                   wire>>

\* job_ids_short = list (j [:job_id_minlen] for j in job_ids)
SliceIds ==
    /\ mon.pc = "slice"
    /\ mon' = [mon EXCEPT !.pc = "test",
                          !.job_ids_short =
                              JobIdsShort(mon.jobs, mon.job_id_minlen)]
    /\ UNCHANGED <<qftVars, userVars, dqfVars, runVars, bitVars, gen, prov,
                   world, wire>>

\* The test of the first loop: break, or job_id_minlen += 2 and again.
TestIds ==
    /\ mon.pc = "test"
    /\ mon' = IF Cardinality(SetOf(mon.job_ids_short)) = Len(mon.jobs)
              THEN [mon EXCEPT !.pc = "pass", !.i = 1, !.all_ended = TRUE]
              ELSE [mon EXCEPT !.pc = "slice",
                               !.job_id_minlen = Lengthened(@)]
    /\ UNCHANGED <<qftVars, userVars, dqfVars, runVars, bitVars, gen, prov,
                   world, wire>>

\* One turn of the for loop: the job at i is passed over when its recorded
\* state has ended, and is asked for its status otherwise.
Poll(queue_position) ==
    /\ mon.pc = "pass"
    /\ mon.i <= Len(mon.jobs)
    /\ mon' = IF mon.states[mon.i] \in ended
              THEN [mon EXCEPT !.i = @ + 1, !.asked = 0]
              ELSE [mon EXCEPT !.i = @ + 1, !.asked = mon.i,
                               !.all_ended = FALSE,
                               !.states[mon.i] =
                                   StateText(world[mon.jobs[mon.i]],
                                             queue_position)]
    /\ UNCHANGED <<qftVars, userVars, dqfVars, runVars, bitVars, gen, prov,
                   world, wire>>

\* After the for loop: the message, then break, or sleep and again.
EndPass ==
    /\ mon.pc = "pass"
    /\ mon.i > Len(mon.jobs)
    /\ mon' = IF mon.all_ended
              THEN [mon EXCEPT !.pc = "returned", !.asked = 0]
              ELSE [mon EXCEPT !.i = 1, !.all_ended = TRUE, !.asked = 0,
                               !.interval =
                                   IF "QUEUED" \notin SetOf(mon.states)
                                   THEN "2" ELSE @]
    /\ UNCHANGED <<qftVars, userVars, dqfVars, runVars, bitVars, gen, prov,
                   world, wire>>

\* The service moves a job on: from the queue to running, from running to
\* done or to an error, and from either to cancelled.
JobAdvance(id) ==
    /\ mon.pc \notin {"none", "returned"}
    /\ id \in DOMAIN world
    /\ world[id] \notin ended
    /\ \E status \in JobStatuses :
           /\ \/ world[id] = "QUEUED" /\ status \in {"RUNNING", "CANCELLED"}
              \/ world[id] = "RUNNING"
                     /\ status \in {"DONE", "ERROR", "CANCELLED"}
           /\ world' = [world EXCEPT ![id] = status]
    /\ UNCHANGED <<qftVars, userVars, dqfVars, runVars, bitVars, gen, prov,
                   mon, wire>>

\* -------------------------------------------------- WiringInstruction.prepare
\* A bit is known by a number.  A circuit is the sequence of its qubits, its
\* quantum registers (each a name and the sequence of its bits), the number of
\* its classical bits and its classical registers (each a name and a size).
\* Indices are counted from 0 as in the code, so qubit i of qc is
\* qc.qubits[i + 1], and a dict is a function on its keys.
Reg(name, bits) == [name |-> name, bits |-> bits]
Creg(name, size) == [name |-> name, size |-> size]
Circuit(qubits, qregs, clbits, cregs) ==
    [qubits |-> qubits, qregs |-> qregs, clbits |-> clbits, cregs |-> cregs]

\* The circuits that are prepared: one register q of one or of two qubits.
Qc0s ==
    {Circuit(<<1>>, <<Reg("q", <<1>>)>>, 0, <<>>),
     Circuit(<<1, 2>>, <<Reg("q", <<1, 2>>)>>, 1, <<Creg("m", 1)>>)}

\* The circuits that are attached: in this order, one register and one
\* classical register; two registers; a qubit in no register; a register
\* whose bits are in another order than the qubits; two registers that
\* share a bit, and a qubit in no register; a register of the bits of q; a
\* register named q after another one; a classical bit in no register; an
\* empty register.
Qc1s ==
    {Circuit(<<11, 12>>, <<Reg("r", <<11, 12>>)>>, 1, <<Creg("c", 1)>>),
     Circuit(<<11, 12, 13>>, <<Reg("r", <<11>>), Reg("s", <<12, 13>>)>>, 0,
             <<>>),
     Circuit(<<11, 12>>, <<Reg("r", <<11>>)>>, 0, <<>>),
     Circuit(<<11, 12>>, <<Reg("r", <<12, 11>>)>>, 0, <<>>),
     Circuit(<<11, 12, 13, 14>>,
             <<Reg("r", <<11, 12>>), Reg("s", <<13, 12>>)>>, 0, <<>>),
     Circuit(<<1, 2>>, <<Reg("r", <<1, 2>>)>>, 0, <<>>),
     Circuit(<<11, 12>>, <<Reg("r", <<11>>), Reg("q", <<12>>)>>, 0, <<>>),
     Circuit(<<11>>, <<Reg("r", <<11>>)>>, 2, <<Creg("c", 1)>>),
     Circuit(<<11>>, <<Reg("r", <<11>>), Reg("e", <<>>)>>, 0, <<>>)}

\* self._wiring: pairs of a qubit index of qc0 and one of qc1
WireIndices == -1..2
Wirings == UNION {[1..n -> WireIndices \X WireIndices] : n \in 0..MaxWires}

\* The first loop of prepare from the k-th pair on: qubitsmap and
\* qubitsmap_forward, or the exception.
RECURSIVE WireLoop(_, _, _, _, _, _)
WireLoop(wiring, k, n0, n1, qubitsmap, qubitsmap_forward) ==
    IF k > Len(wiring) THEN [err |-> "none", qubitsmap |-> qubitsmap]
    ELSE LET i == IF wiring[k][1] < 0 THEN wiring[k][1] + n0
                  ELSE wiring[k][1]
             j == IF wiring[k][2] < 0 THEN wiring[k][2] + n1
                  ELSE wiring[k][2]
         IN  IF i < 0 \/ i >= n0 \/ j < 0 \/ j >= n1
             THEN [err |-> "ValueError", qubitsmap |-> qubitsmap]
             ELSE IF j \in DOMAIN qubitsmap \/ i \in DOMAIN qubitsmap_forward
             THEN [err |-> "AssertionError", qubitsmap |-> qubitsmap]
             ELSE WireLoop(wiring, k + 1, n0, n1, (j :> i) @@ qubitsmap,
                           (i :> j) @@ qubitsmap_forward)

\* unwired_qbits_map
UnwiredQbitsMap(qubits, qubitsmap) ==
    LET unwired == {i \in 0..(Len(qubits) - 1) : i \notin DOMAIN qubitsmap}
    IN  [qb \in {qubits[i + 1] : i \in unwired} |->
            CHOOSE i \in unwired : qubits[i + 1] = qb]

\* test = sum (b in unwired_qbits_map for b in r)
Test(r, unwired_qbits_map) ==
    Cardinality({k \in DOMAIN r.bits : r.bits[k] \in DOMAIN unwired_qbits_map})

\* The loop over qc1.qregs from the k-th register on: qregs2add, or the
\* exception.
RECURSIVE Qregs2Add(_, _, _, _)
Qregs2Add(qregs, k, unwired_qbits_map, qregs2add) ==
    IF k > Len(qregs) THEN [err |-> "none", qregs2add |-> qregs2add]
    ELSE IF Test(qregs[k], unwired_qbits_map) = Len(qregs[k].bits)
    THEN Qregs2Add(qregs, k + 1, unwired_qbits_map,
                   Append(qregs2add, qregs[k]))
    ELSE IF Test(qregs[k], unwired_qbits_map) # 0
    THEN [err |-> "TypeError", qregs2add |-> qregs2add]
    ELSE Qregs2Add(qregs, k + 1, unwired_qbits_map, qregs2add)

\* The index in qc0 anticipated for bit i of a register added at n0.
Anticipated(n0, i) == n0 + i

\* The loop over qregs2add from bit i of the k-th register on, for the
\* register's ioffset: qubitsmap with the anticipated indices, or the
\* exception.
RECURSIVE Anticipate(_, _, _, _, _, _)
Anticipate(qregs2add, k, i, n0, unwired_qbits_map, qubitsmap) ==
    IF k > Len(qregs2add) THEN [err |-> "none", qubitsmap |-> qubitsmap]
    ELSE LET r == qregs2add[k].bits
         IN  IF r = <<>> THEN [err |-> "IndexError", qubitsmap |-> qubitsmap]
             ELSE IF i >= Len(r)
             THEN Anticipate(qregs2add, k + 1, 0, n0 + Len(r),
                             unwired_qbits_map, qubitsmap)
             ELSE IF i + unwired_qbits_map[r[1]] \in DOMAIN qubitsmap
             THEN [err |-> "AssertionError", qubitsmap |-> qubitsmap]
             ELSE Anticipate(qregs2add, k, i + 1, n0, unwired_qbits_map,
                             ((i + unwired_qbits_map[r[1]]) :>
                                  Anticipated(n0, i)) @@ qubitsmap)

\* sum (r.size for r in qc1.cregs)
RECURSIVE SumSizes(_)
SumSizes(cregs) ==
    IF cregs = <<>> THEN 0 ELSE Head(cregs).size + SumSizes(Tail(cregs))

\* Whether qc0 has a register, quantum or classical, of this name.
HasName(qc0, name) ==
    \/ \E k \in DOMAIN qc0.qregs : qc0.qregs[k].name = name
    \/ \E k \in DOMAIN qc0.cregs : qc0.cregs[k].name = name

\* The bits of bits from the k-th on that are not among qubits, in order.
RECURSIVE NewBits(_, _, _)
NewBits(bits, k, qubits) ==
    IF k > Len(bits) THEN <<>>
    ELSE IF \E n \in DOMAIN qubits : qubits[n] = bits[k]
    THEN NewBits(bits, k + 1, qubits)
    ELSE <<bits[k]>> \o NewBits(bits, k + 1, qubits)

\* qc0.add_register (r) for each quantum register from the k-th on: the SDK
\* raises CircuitError for a register whose name qc0 has already, and else
\* appends the register and those of its bits that qc0 does not have yet.
RECURSIVE AddQregs(_, _, _)
AddQregs(qc0, regs, k) ==
    IF k > Len(regs) THEN [err |-> "none", qc0 |-> qc0]
    ELSE IF HasName(qc0, regs[k].name)
    THEN [err |-> "CircuitError", qc0 |-> qc0]
    ELSE AddQregs([qc0 EXCEPT !.qregs = Append(@, regs[k]),
                              !.qubits = @ \o NewBits(regs[k].bits, 1, @)],
                  regs, k + 1)

\* qc0.add_register (r) for each classical register from the k-th on; the
\* classical registers here have bits of their own.
RECURSIVE AddCregs(_, _, _)
AddCregs(qc0, cregs, k) ==
    IF k > Len(cregs) THEN [err |-> "none", qc0 |-> qc0]
    ELSE IF HasName(qc0, cregs[k].name)
    THEN [err |-> "CircuitError", qc0 |-> qc0]
    ELSE AddCregs([qc0 EXCEPT !.cregs = Append(@, cregs[k]),
                              !.clbits = @ + cregs[k].size],
                  cregs, k + 1)

NoKwargs == [qubits |-> <<>>, clbits |-> <<>>]

\* WiringInstruction (qc1, wiring).prepare (qc0): the exception, qc0 as it
\* is afterwards, and the kwargs returned.
Prepare(qc0, qc1, wiring) ==
    LET n0 == Len(qc0.qubits)
        n1 == Len(qc1.qubits)
        fail(e) == [err |-> e, qc0 |-> qc0, kwargs |-> NoKwargs]
        wired == WireLoop(wiring, 1, n0, n1, <<>>, <<>>)
        unwired_qbits_map == UnwiredQbitsMap(qc1.qubits, wired.qubitsmap)
        toadd == Qregs2Add(qc1.qregs, 1, unwired_qbits_map, <<>>)
        mapped == Anticipate(toadd.qregs2add, 1, 0, n0, unwired_qbits_map,
                             wired.qubitsmap)
        qubitsmap == mapped.qubitsmap
        qubits_arg == [k \in 1..n1 |-> qubitsmap[k - 1]]
        clbits_arg == [k \in 1..qc1.clbits |-> qc0.clbits + k - 1]
        qadded == AddQregs(qc0, toadd.qregs2add, 1)
        cadded == AddCregs(qadded.qc0, qc1.cregs, 1)
    IN  IF wired.err # "none" THEN fail(wired.err)
        ELSE IF toadd.err # "none" THEN fail(toadd.err)
        ELSE IF mapped.err # "none" THEN fail(mapped.err)
        ELSE IF Cardinality(DOMAIN qubitsmap) # n1 THEN fail("TypeError")
        ELSE IF \E i \in 0..(n1 - 1) : i \notin DOMAIN qubitsmap
        THEN fail("KeyError")
        ELSE IF qc1.clbits # SumSizes(qc1.cregs) THEN fail("TypeError")
        ELSE IF qadded.err # "none"
        THEN [err |-> qadded.err, qc0 |-> qadded.qc0, kwargs |-> NoKwargs]
        ELSE IF cadded.err # "none"
        THEN [err |-> cadded.err, qc0 |-> cadded.qc0, kwargs |-> NoKwargs]
        ELSE [err |-> "none", qc0 |-> cadded.qc0,
              kwargs |-> [qubits |-> qubits_arg, clbits |-> clbits_arg]]

NoWire == [called |-> FALSE, before |-> Circuit(<<>>, <<>>, 0, <<>>),
           qc0 |-> Circuit(<<>>, <<>>, 0, <<>>),
           qc1 |-> Circuit(<<>>, <<>>, 0, <<>>), wiring |-> <<>>,
           err |-> "none", kwargs |-> NoKwargs]

\* The call WiringInstruction (qc1, wiring).prepare (qc0).
CallPrepare(qc0, qc1, wiring) ==
    /\ ~ wire.called
    /\ wire' = [called |-> TRUE, before |-> qc0,
                qc0 |-> Prepare(qc0, qc1, wiring).qc0, qc1 |-> qc1,
                wiring |-> wiring, err |-> Prepare(qc0, qc1, wiring).err,
                kwargs |-> Prepare(qc0, qc1, wiring).kwargs]
    /\ UNCHANGED <<qftVars, userVars, dqfVars, runVars, bitVars, gen, prov,
                   monVars>>

vars == <<cache, objs, stack, result, err, client, pending, calls,
          namespace, accepts, rejects, reject_map, dqf, qc, run, job, mii,
          memory, mix, counts, gen, prov, mon, world, wire>>

Idle ==
    /\ cache = <<>>
    /\ objs = <<>>
    /\ stack = <<>>
    /\ result = 0
    /\ err = "none"
    /\ client = "idle"
    /\ pending = NoPending
    /\ calls = {}
    /\ namespace = <<>>
    /\ accepts = <<>>
    /\ rejects = <<>>
    /\ reject_map = <<>>
    /\ dqf = [pc |-> "none", output_endians |-> <<>>, inverses |-> <<>>,
              mfs |-> <<>>, include_examples |-> FALSE, overwrite |-> FALSE,
              i |-> 1, j |-> 1, k |-> 1, f |-> 0, namespace0 |-> <<>>,
              recorded |-> <<>>]
    /\ qc = <<>>
    /\ run = [pc |-> "none", n |-> 0, f |-> 0, g |-> 0, m |-> 0, x |-> 0]

\* No result object is looked at.
NoBits ==
    /\ job = <<>>
    /\ mii = NoMii
    /\ memory = <<>>
    /\ mix = NoMix
    /\ counts = NoCounts

\* Nothing else of the package is in use.
NoRest ==
    /\ gen = NoGenerator
    /\ prov = NoProv
    /\ mon = NoMon
    /\ world = <<>>
    /\ wire = NoWire

Init ==
    /\ NoRest
    /\ Idle
    /\ job = <<>>
    /\ mii = NoMii
    /\ memory = <<>>
    /\ mix = NoMix
    /\ counts = NoCounts

Next ==
    \/ UserCall
    \/ Resolve
    \/ Lookup
    \/ Define
    \/ DefineExample
    \/ BindCall
    \/ Finish

Spec == Init /\ [][Next]_vars

\* =================================================================== claims
\* What the documentation of get_qft says about its arguments.
ClaimMode(mf) ==
    IF mf = "measured" \/ mf = "measure" THEN "single_qubit"
    ELSE IF mf = "True" THEN "friendly" ELSE "off"

ClaimEndian(a) ==
    IF a.output_endian \in {"little", "big"} THEN a.output_endian
    ELSE IF ClaimMode(a.mf) = "single_qubit"
    THEN IF a.output_endian = "auto" THEN "little" ELSE "big"
    ELSE IF a.output_endian = "auto"
    THEN IF a.inverse THEN "little" ELSE "big"
    ELSE IF a.inverse THEN "big" ELSE "little"

ClaimKey(a) == <<ClaimEndian(a), a.inverse, ClaimMode(a.mf)>>

\* No call is active.
Quiescent == stack = <<>>

\* The keys of the twelve transforms and the cached procedure of a key.
Keys == {"little", "big"} \X BOOLEAN \X {"False", "True", "measured"}
KeyNames == [k \in Keys |-> FuncName(k[1], k[2], k[3])]
ExampleNames == [k \in Keys |-> FuncNameExample(KeyNames[k])]
KeyName(k) == KeyNames[k]
Cached(k) == CacheGet(cache, KeyName(k))
Flip(e) == IF e = "little" THEN "big" ELSE "little"
Link(f, attr) == IF f = 0 THEN 0 ELSE objs[f].attrs[attr]

TypeOK ==
    /\ Len(objs) <= MaxObjs
    /\ \A n \in DOMAIN cache : cache[n] \in 1..Len(objs)
    /\ Cardinality(DOMAIN cache) <= 16
    /\ err \in {"none", "output_endian"}

\* C1: two completed get_qft calls whose arguments resolve to the same
\* (output_endian, inverse, mode) key, with 'auto', 'opposite',
\* 'auto_opposite' resolved and 'measure' read as 'measured', returned the
\* identical procedure object.
C1_SameKeySameProcedure ==
    \A c, d \in calls :
        ClaimKey(c.args) = ClaimKey(d.args) => c.f = d.f /\ c.f # 0

\* Two calls with different arguments and the same key have returned.
C1_Witness ==
    \E c, d \in calls :
        /\ c.args.mf = "measure" /\ d.args.mf = "measured"
        /\ c.args.output_endian = "auto"
        /\ d.args.output_endian = "little"
        /\ c.args.inverse = d.args.inverse
        /\ c.f = d.f /\ c.f # 0

\* C2: in every state, the states inside the recursive population of the
\* cross-links included, the cache holds at most 16 entries, and a name in
\* the cache maps to the same procedure in the next state.
C2_CacheBoundedAndStable ==
    /\ [](Cardinality(DOMAIN cache) <= 16)
    /\ [][\A n \in DOMAIN cache : n \in DOMAIN cache' /\ cache'[n] = cache[n]]_vars

\* The cache is full while calls are still active.
C2_Witness ==
    /\ Cardinality(DOMAIN cache) = 16
    /\ Len(stack) >= 2

\* C3: once no call is active, every cached transform f of key
\* (endian, inverse, mf) has as __opposite_endian__ the cached procedure of
\* (flipped endian, inverse, mf) and as __inverse__ the cached procedure of
\* (flipped endian, not inverse, mf); following either link twice gives f.
C3_EndianAndInverseLinks ==
    Quiescent =>
        \A k \in Keys :
            LET f == Cached(k) IN
            f # 0 =>
                /\ Link(f, "__opposite_endian__") # 0
                /\ Link(f, "__opposite_endian__")
                       = Cached(<<Flip(k[1]), k[2], k[3]>>)
                /\ Link(f, "__inverse__") # 0
                /\ Link(f, "__inverse__") = Cached(<<Flip(k[1]), ~k[2], k[3]>>)
                /\ Link(Link(f, "__opposite_endian__"), "__opposite_endian__") = f
                /\ Link(Link(f, "__inverse__"), "__inverse__") = f

\* A call has returned a procedure and the links of the cached procedures
\* are there to be followed.
C3_Witness ==
    /\ Quiescent
    /\ calls # {}
    /\ Cached(<<"big", FALSE, "measured">>) # 0
    /\ Link(Cached(<<"big", FALSE, "measured">>), "__inverse__")
           = Cached(<<"little", TRUE, "measured">>)

\* C4 as stated: once no call is active, __opposite_mf__ followed twice from
\* any cached transform, of any of the three modes, gives that transform.
C4_Original ==
    Quiescent =>
        \A k \in Keys :
            LET f == Cached(k) IN
            f # 0 => Link(Link(f, "__opposite_mf__"), "__opposite_mf__") = f

\* C4 amended: once no call is active, __opposite_mf__ followed twice from
\* a cached off or friendly transform gives that transform; the
\* __opposite_mf__ of a single_qubit procedure is the off procedure of the
\* same endian and inverse, and following the link again gives the friendly
\* procedure, which is its __other_mf__.
C4_OppositeMfLinks ==
    Quiescent =>
        \A k \in Keys :
            LET f == Cached(k)
                off == Cached(<<k[1], k[2], "False">>)
                friendly == Cached(<<k[1], k[2], "True">>)
            IN  f # 0 =>
                    /\ off # 0 /\ friendly # 0
                    /\ Link(f, "__opposite_mf__")
                           = IF k[3] = "False" THEN friendly ELSE off
                    /\ Link(Link(f, "__opposite_mf__"), "__opposite_mf__")
                           = IF k[3] = "measured" THEN friendly ELSE f
                    /\ k[3] = "measured" => Link(f, "__other_mf__") = friendly

\* A single_qubit procedure is cached and its __opposite_mf__ is bound.
C4_Witness ==
    /\ Quiescent
    /\ Cached(<<"little", TRUE, "measured">>) # 0
    /\ Link(Cached(<<"little", TRUE, "measured">>), "__opposite_mf__")
           = Cached(<<"little", TRUE, "False">>)
    /\ Cached(<<"little", TRUE, "False">>) # 0

\* C5: once no call is active, the __other_mf__ of a cached friendly
\* procedure is the cached single_qubit procedure of the same endian and
\* inverse, whose __other_mf__ is the friendly procedure again; an off
\* procedure has no __other_mf__.
C5_OtherMfLinks ==
    Quiescent =>
        \A e \in {"little", "big"}, inv \in BOOLEAN :
            LET friendly == Cached(<<e, inv, "True">>)
                single == Cached(<<e, inv, "measured">>)
                off == Cached(<<e, inv, "False">>)
            IN  /\ friendly # 0 =>
                       /\ single # 0
                       /\ Link(friendly, "__other_mf__") = single
                       /\ Link(single, "__other_mf__") = friendly
                /\ off # 0 => Link(off, "__other_mf__") = 0

\* The friendly and off procedures of a key are cached after a call.
C5_Witness ==
    /\ Quiescent
    /\ calls # {}
    /\ Cached(<<"big", TRUE, "True">>) # 0
    /\ Cached(<<"big", TRUE, "False">>) # 0
    /\ Link(Cached(<<"big", TRUE, "True">>), "__other_mf__")
           = Cached(<<"big", TRUE, "measured">>)

\* The procedures reached by following the five links: S holds those found
\* so far and F those of them whose links have not been followed yet.
RECURSIVE Reach(_, _)
Reach(S, F) ==
    IF F = {} THEN S
    ELSE LET N == ({Link(f, a) : f \in F, a \in Attrs} \ {0}) \ S
         IN  Reach(S \cup N, N)

Reachable(f) == Reach({f}, {f})

CachedObjs == {cache[n] : n \in DOMAIN cache}
CachedExamples == {cache[ExampleNames[k]] :
                      k \in {x \in Keys : ExampleNames[x] \in DOMAIN cache}}

\* C6: once a get_qft call has returned a procedure and no call is active,
\* the procedures reached from any cached transform by the five links are
\* exactly the cached ones, which are 16: the 12 transforms and the example
\* of each of the 4 single_qubit procedures; and no step of a later call
\* changes the cache.
C6_LinksSpanTheCache ==
    /\ [](Quiescent /\ calls # {} =>
            /\ Cardinality(DOMAIN cache) = 16
            /\ Cardinality(CachedObjs) = 16
            /\ \A k \in Keys : Cached(k) # 0
            /\ Cardinality({Cached(k) : k \in Keys}) = 12
            /\ Cardinality(CachedExamples) = 4
            /\ \A k \in Keys :
                   k[3] = "measured" =>
                       Link(Cached(k), "__example__")
                           = CacheGet(cache, ExampleNames[k])
            /\ \A k \in Keys : Reachable(Cached(k)) = CachedObjs)
    /\ [][calls # {} => cache' = cache]_vars

\* A second call has returned after the first one has filled the cache.
C6_Witness ==
    /\ Quiescent
    /\ \E c, d \in calls :
           /\ c.f # d.f
           /\ objs[d.f].src.kind = "measured"
           /\ Reachable(d.f) = CachedObjs

\* C7: once the outermost call of a user has normalised its arguments, its
\* output_endian is: the given one for 'little' and 'big'; in single_qubit
\* mode little for 'auto' and big for 'opposite' and 'auto_opposite'; in
\* the other modes little if inverse else big for 'auto', and big if
\* inverse else little for 'opposite' and 'auto_opposite'.
C7_EndianResolution ==
    (client = "user" /\ stack # <<>> /\ stack[1].pc # "enter") =>
        /\ stack[1].output_endian =
              (CASE pending.output_endian = "little" -> "little"
                 [] pending.output_endian = "big" -> "big"
                 [] pending.output_endian = "auto" ->
                      IF pending.mf \in {"measured", "measure"} THEN "little"
                      ELSE IF pending.inverse THEN "little" ELSE "big"
                 [] pending.output_endian \in {"opposite", "auto_opposite"} ->
                      IF pending.mf \in {"measured", "measure"} THEN "big"
                      ELSE IF pending.inverse THEN "big" ELSE "little"
                 [] OTHER -> "none")
        /\ stack[1].inverse = pending.inverse

\* A measured call with 'auto_opposite' and inverse set has been resolved.
C7_Witness ==
    /\ client = "user" /\ stack # <<>> /\ stack[1].pc = "lookup"
    /\ pending.output_endian = "auto_opposite"
    /\ pending.mf = "measure" /\ pending.inverse
    /\ stack[1].output_endian = "big"

NextDefine ==
    \/ DefineCall
    \/ DefineRecord
    \/ DefineNext
    \/ Resolve
    \/ Lookup
    \/ Define
    \/ DefineExample
    \/ BindCall
    \/ Finish

SpecDefine == Init /\ [][NextDefine]_vars

Range(s) == {s[i] : i \in 1..Len(s)}
NoDup(s) == \A i, j \in 1..Len(s) : i # j => s[i] # s[j]
Count(s, x) == Cardinality({i \in 1..Len(s) : s[i] = x})
Last(s) == s[Len(s)]

\* A step of define_qft_functions in which record (f) is called.
RecordStep == dqf.pc # "none" /\ Len(dqf'.recorded) = Len(dqf.recorded) + 1

\* C8: when record (f) finds the name of the generated procedure f in the
\* namespace, then with overwrite false the namespace is left as it is, the
\* name is appended to the rejected names and the rejected-name mapping
\* maps it to f, and with overwrite true the name is rebound to f and
\* nothing is rejected; and every name the call has bound maps to the cached
\* procedure of that name.
C8_CollisionRejectedOrOverwritten ==
    /\ [][RecordStep =>
            LET f == Last(dqf'.recorded)
                name == objs[f].name
            IN  /\ f # 0 /\ CacheGet(cache, name) = f
                /\ (name \in DOMAIN namespace /\ ~dqf.overwrite) =>
                       /\ namespace' = namespace
                       /\ accepts' = accepts
                       /\ rejects' = Append(rejects, name)
                       /\ name \in DOMAIN reject_map'
                       /\ reject_map'[name] = f
                /\ (name \in DOMAIN namespace /\ dqf.overwrite) =>
                       /\ namespace'[name] = f
                       /\ rejects' = rejects /\ rejects = <<>>
                       /\ reject_map' = reject_map /\ reject_map = <<>>]_vars
    /\ [](dqf.pc # "none" =>
            /\ \A n \in Range(accepts) :
                   /\ n \in DOMAIN namespace
                   /\ namespace[n] # 0
                   /\ namespace[n] = CacheGet(cache, n)
            /\ ~dqf.overwrite =>
                   \A n \in DOMAIN dqf.namespace0 :
                       /\ n \in DOMAIN namespace
                       /\ namespace[n] = dqf.namespace0[n])

\* The call has returned after rejecting a name the namespace held before.
C8_Witness ==
    /\ dqf.pc = "done" /\ ~dqf.overwrite
    /\ "qft_mf_beo" \in Range(rejects)
    /\ "qft_mf_beo" \in DOMAIN namespace /\ namespace["qft_mf_beo"] = -1
    /\ reject_map["qft_mf_beo"] = CacheGet(cache, "qft_mf_beo")
    /\ "iqft_mf_leo" \in Range(accepts)

\* The call has returned, mfs held both synonyms and the namespace was empty.
BothSynonyms ==
    /\ dqf.pc = "done"
    /\ {"measure", "measured"} \subseteq Range(dqf.mfs)
    /\ dqf.namespace0 = <<>>

\* The names of the single_qubit procedures the call asked for.
SingleQubitNames ==
    {FuncName(ClaimEndian([output_endian |-> e, inverse |-> inv,
                           mf |-> "measured"]), inv, "measured") :
        e \in Range(dqf.output_endians), inv \in Range(dqf.inverses)}

\* C9 as stated: with both 'measure' and 'measured' in mfs and an initially
\* empty namespace, the call rejects no name and accepts no name twice.
C9_Original ==
    BothSynonyms => rejects = <<>> /\ NoDup(accepts)

\* C9 amended: the synonyms are not deduplicated.  With both in mfs and an
\* initially empty namespace, every single_qubit procedure asked for is
\* recorded once per synonym: with overwrite false its name is rejected, the
\* rejected-name mapping holding the very procedure bound under that name,
\* and no name is accepted twice; with overwrite true nothing is rejected
\* and its name is accepted at least twice.
C9_SynonymsRecordedTwice ==
    BothSynonyms =>
        /\ ~dqf.overwrite =>
               /\ NoDup(accepts)
               /\ \A m \in SingleQubitNames :
                      /\ m \in Range(accepts) /\ m \in Range(rejects)
                      /\ reject_map[m] = namespace[m]
                      /\ namespace[m] = CacheGet(cache, m)
        /\ dqf.overwrite =>
               /\ rejects = <<>>
               /\ \A m \in SingleQubitNames : Count(accepts, m) >= 2

\* Such a call has returned with overwrite false.
C9_Witness ==
    /\ BothSynonyms /\ ~dqf.overwrite
    /\ dqf.output_endians = <<"auto">>
    /\ "qft_m_leo" \in Range(rejects)
    /\ Count(accepts, "qft_m_leo") = 1

RoundTripCall ==
    \E n \in 1..MaxN, output_endian \in Endians, inverse \in BOOLEAN,
       mf \in Mfs :
        RoundTripGet(n, output_endian, inverse, mf)

NextRun ==
    \/ RoundTripCall
    \/ RoundTripForward
    \/ RoundTripInverse
    \/ ExampleForward
    \/ ExampleStep
    \/ Resolve
    \/ Lookup
    \/ Define
    \/ DefineExample
    \/ BindCall
    \/ Finish

SpecRun == Init /\ [][NextRun]_vars

\* The gates of the round trip before and after the barrier.
BarrierAt == CHOOSE i \in 1..Len(qc) : qc[i].g = "barrier"
Forward == SubSeq(qc, 1, BarrierAt - 1)
Backward == SubSeq(qc, BarrierAt + 1, Len(qc))

\* Where the gates of a sequence are: the Hadamard on q, and the
\* controlled-phase gates between a and b.
HAt(S, q) == {i \in 1..Len(S) : S[i].g = "h" /\ S[i].a = q}
CpAt(S, a, b) == {i \in 1..Len(S) : S[i].g = "cp" /\ {S[i].a, S[i].b} = {a, b}}
The(I) == CHOOSE i \in I : TRUE

\* C10: when a full transform f and then f.__inverse__ have been applied to
\* n qubits, each of the two has applied n Hadamards, one per qubit, and
\* one controlled-phase gate per unordered pair of qubits, and nothing else;
\* the angle of a pair in f.__inverse__ is the negated angle of the pair in
\* f; and for a qubit q of the pair the gate precedes the Hadamard on q in
\* f.__inverse__ exactly when it follows the Hadamard on q in f.
C10_InverseUndoesTransform ==
    run.pc = "done" =>
        LET n == run.n
            F == Forward
            G == Backward
        IN  /\ run.g = objs[run.f].attrs["__inverse__"]
            /\ Len(F) = n + (n * (n - 1)) \div 2
            /\ Len(G) = Len(F)
            /\ \A q \in 0..(n - 1) :
                   Cardinality(HAt(F, q)) = 1 /\ Cardinality(HAt(G, q)) = 1
            /\ \A a, b \in 0..(n - 1) :
                   a < b =>
                       /\ Cardinality(CpAt(F, a, b)) = 1
                       /\ Cardinality(CpAt(G, a, b)) = 1
                       /\ LET x == The(CpAt(F, a, b))
                              y == The(CpAt(G, a, b))
                          IN  /\ F[x].sign \in {-1, 1}
                              /\ G[y].sign = - F[x].sign
                              /\ G[y].exp = F[x].exp
                              /\ \A q \in {a, b} :
                                     (y < The(HAt(G, q)))
                                         <=> (x > The(HAt(F, q)))

\* The round trip of an off transform on three qubits is complete.
C10_Witness ==
    /\ run.pc = "done"
    /\ run.n = 3
    /\ objs[run.f].name = "qft_beo"
    /\ objs[run.g].name = "iqft_leo"
    /\ Len(qc) = 13

\* --------------------------------------------------- the full transforms
\* C13: when an off or friendly transform has been applied to n qubits, it
\* has applied exactly one Hadamard to each qubit and exactly one
\* controlled-phase gate to each unordered pair {j, k}, of magnitude
\* pi / 2 ^ |k - j| with |k - j| at least 1, and of negative sign exactly
\* when the inverse was requested; the Hadamard on j precedes every rotation
\* of the inner loop of j in off mode and follows every one of them in
\* friendly mode.
C13_OneHadamardOnePhasePerPair ==
    run.pc = "forward" =>
        \A key \in Keys :
            (key[3] # "measured" /\ Cached(key) = run.f) =>
                LET n == run.n
                    S == qc
                IN  /\ Len(S) = n + (n * (n - 1)) \div 2
                    /\ \A q \in 0..(n - 1) : Cardinality(HAt(S, q)) = 1
                    /\ \A a, b \in 0..(n - 1) :
                           a < b =>
                               /\ Cardinality(CpAt(S, a, b)) = 1
                               /\ S[The(CpAt(S, a, b))].exp = b - a
                               /\ S[The(CpAt(S, a, b))].exp >= 1
                               /\ S[The(CpAt(S, a, b))].sign
                                      = IF key[2] THEN -1 ELSE 1
                    /\ \A x \in 1..Len(S) :
                           S[x].g = "cp" =>
                               IF key[3] = "False"
                               THEN The(HAt(S, S[x].a)) < x
                               ELSE The(HAt(S, S[x].a)) > x

\* An inverse friendly transform has been applied to four qubits.
C13_Witness ==
    /\ run.pc = "forward"
    /\ run.n = 4
    /\ objs[run.f].name = "iqft_mf_leo"
    /\ Len(qc) = 10

\* ------------------------------------------------- the measured transform
\* The gates the example has applied so far, and the positions of its
\* measurements.
ExampleGates == Backward
Measurements == {x \in 1..Len(ExampleGates) : ExampleGates[x].g = "measure"}
NotMeasure(gate) == gate.g # "measure"
AsCPhase(gate) == IF gate.g = "p" THEN [gate EXCEPT !.g = "cp"] ELSE gate

\* C11: when the example of a measured transform m has returned, its n
\* calls of m have applied, measurements aside, the gates of the friendly
\* transform of the same endian and inverse, m.__other_mf__, in the same
\* order: the same order of j, at step j the rotations for the same k in the
\* same order, with the same sign and the magnitude pi / 2 ^ |k - j|, each
\* conditioned on creg [k] where the friendly transform controls on qubit
\* k, and then the Hadamard on the qubit of the step.
C11_SingleQubitProtocolIsFriendly ==
    run.pc = "returned" =>
        LET fr == Link(run.m, "__other_mf__")
            E == SelectSeq(ExampleGates, NotMeasure)
        IN  /\ fr # 0
            /\ \E e \in {"little", "big"}, inverse \in BOOLEAN :
                   /\ Cached(<<e, inverse, "measured">>) = run.m
                   /\ Cached(<<e, inverse, "True">>) = fr
            /\ [x \in 1..Len(E) |-> AsCPhase(E[x])]
                   = FullTransform(objs[fr].src, run.n)

\* The example of the big endian measured transform has returned, for
\* four bits.
C11_Witness ==
    /\ run.pc = "returned"
    /\ run.n = 4
    /\ objs[run.m].name = "qft_m_beo"
    /\ objs[Link(run.m, "__other_mf__")].name = "qft_mf_beo"
    /\ Len(ExampleGates) = 14

\* C12: while the example runs and when it has returned, every call of the
\* measured transform made so far ends with one Hadamard and then one
\* measurement of the same qubit into creg [j]; every rotation is
\* conditioned on a bit that an earlier call of the run has measured; and
\* when the example has returned there have been exactly n calls, one for
\* each j of 0 .. n - 1.
C12_ExampleMeasuresBeforeUse ==
    run.pc \in {"example", "returned"} =>
        LET G == ExampleGates
            n == run.n
        IN  /\ Cardinality(Measurements) = run.x - 1
            /\ Cardinality({x \in 1..Len(G) : G[x].g = "h"}) = run.x - 1
            /\ Len(G) > 0 => Len(G) \in Measurements
            /\ \A x \in Measurements :
                   /\ x > 1
                   /\ G[x - 1].g = "h"
                   /\ G[x - 1].a = G[x].a
                   /\ G[x].b = G[x].a
            /\ \A x \in 1..Len(G) :
                   G[x].g = "p" =>
                       \E y \in Measurements : y < x /\ G[y].b = G[x].b
            /\ run.pc = "returned" =>
                   /\ run.x - 1 = n
                   /\ \A j \in 0..(n - 1) :
                          Cardinality({x \in Measurements : G[x].b = j}) = 1

\* The example of the little endian inverse measured transform has
\* returned, for three bits: the last call has applied two rotations.
C12_Witness ==
    /\ run.pc = "returned"
    /\ run.n = 3
    /\ objs[run.m].name = "iqft_m_leo"
    /\ Cardinality({x \in 1..Len(ExampleGates) : ExampleGates[x].g = "p"}) = 3
    /\ ExampleGates[Len(ExampleGates)] = Measure(2, 2)

\* ------------------------------------------------- the table of positions
\* clbit_label_to_mii is called once, for a result object whose experiments
\* carry any labels.
InitLabels ==
    /\ NoRest
    /\ Idle
    /\ \E labels \in LabelSeqs :
           \/ job = OneResult(labels)
           \/ \E c \in 0..Len(labels) : job = TwoResults(labels, c)
    /\ mii = NoMii
    /\ memory = <<>>
    /\ mix = NoMix
    /\ counts = NoCounts

NextLabels == CallClbitLabelToMii

SpecLabels == InitLabels /\ [][NextLabels]_vars

\* What the result object declares.  The labels of all experiments in
\* order, the keys and the register names they declare, and the size of a
\* register.
RECURSIVE LabelsFrom(_)
LabelsFrom(x) == IF x > Len(job) THEN <<>> ELSE job[x] \o LabelsFrom(x + 1)
AllLabels == LabelsFrom(1)
Declared == Range(AllLabels)
DeclaredNames == {label[1] : label \in Declared}
SizeOf(name) == Cardinality({label \in Declared : label[1] = name})

\* The labels of an experiment are those of registers declared one after
\* the other, each with the indices 0 .. size - 1 in order.
ContiguousIn(labels) ==
    \A x \in 1..Len(labels) :
        \/ labels[x][2] = 0
        \/ /\ x > 1
           /\ labels[x - 1][1] = labels[x][1]
           /\ labels[x][2] = labels[x - 1][2] + 1

NamesIn(labels) == {label[1] : label \in Range(labels)}

\* The registers of an experiment have different names, and two
\* experiments declare the same registers or registers of different names.
WellDeclared ==
    /\ \A e \in 1..Len(job) : ContiguousIn(job[e]) /\ NoDup(job[e])
    /\ \A e, g \in 1..Len(job) :
           job[e] = job[g]
           \/ NamesIn(job[e]) \cap NamesIn(job[g]) = {}

\* Where the keys are declared: the last declaration of each.
DeclaredAt ==
    {x \in 1..Len(AllLabels) :
        \A y \in (x + 1)..Len(AllLabels) : AllLabels[y] # AllLabels[x]}
NextDeclared(x, y) ==
    /\ x \in DeclaredAt /\ y \in DeclaredAt /\ x < y
    /\ \A z \in DeclaredAt : ~ (x < z /\ z < y)
Positions == {mii.table[label] : label \in Declared}
NBits == Cardinality(Declared)
NRegs == Cardinality(DeclaredNames)

\* C14, as the claim states it: for well declared registers, the keys
\* (name, index) with index >= 0 are mapped one to one onto 0 .. N - 1,
\* where N is the number of bits declared.
C14_Original ==
    (mii.done /\ WellDeclared) =>
        /\ mii.err = "none"
        /\ Positions = 0..(NBits - 1)

\* C14, amended: for well declared registers, the keys (name, index) with
\* index >= 0 are mapped one to one into 0 .. N + R - 2, where N is the
\* number of bits and R the number of registers declared: from one bit to
\* the next of the same register the position goes down by one, and from
\* the last bit of a register to the first bit of the next by two, which
\* leaves out the position of the separator.  The positions are 0 .. N - 1
\* when there is one register.
C14_PositionsSkipSeparators ==
    (mii.done /\ WellDeclared) =>
        /\ mii.err = "none"
        /\ Declared \subseteq DOMAIN mii.table
        /\ Cardinality(Positions) = NBits
        /\ NBits > 0 =>
               /\ Positions \subseteq 0..(NBits + NRegs - 2)
               /\ 0 \in Positions
               /\ (NBits + NRegs - 2) \in Positions
        /\ \A x, y \in DeclaredAt :
               NextDeclared(x, y) =>
                   mii.table[AllLabels[x]] - mii.table[AllLabels[y]]
                       = IF AllLabels[y][2] = 0 THEN 2 ELSE 1
        /\ NRegs <= 1 => Positions = 0..(NBits - 1)

\* The table of a register a of size 3 and a register b of size 1.
C14_Witness ==
    /\ mii.done
    /\ job = <<(<< <<"a", 0>>, <<"a", 1>>, <<"a", 2>>, <<"b", 0>> >>)>>
    /\ Positions = {0, 2, 3, 4}

\* C15: for well declared registers, the bit declared last has position 0
\* and the positions decrease strictly in the order of declaration.
C15_LastDeclaredFirst ==
    (mii.done /\ WellDeclared /\ AllLabels # <<>>) =>
        /\ mii.err = "none"
        /\ mii.table[Last(AllLabels)] = 0
        /\ \A x, y \in DeclaredAt :
               x < y => mii.table[AllLabels[x]] > mii.table[AllLabels[y]]

\* The table of two experiments, with a register a and a register b of
\* size 2.
C15_Witness ==
    /\ mii.done
    /\ job = << (<< <<"a", 0>>, <<"a", 1>> >>), (<< <<"b", 0>>, <<"b", 1>> >>) >>
    /\ mii.table[<<"b", 1>>] = 0
    /\ mii.table[<<"a", 0>>] = 4

\* C16: for well declared registers, for a register of size s and i in
\* 0 .. s - 1 the key (name, i - s) has the position of (name, i); and the
\* name alone is a key exactly when the size is 1, with the position of
\* (name, 0).
C16_NegativeAndNameAliases ==
    (mii.done /\ WellDeclared) =>
        /\ mii.err = "none"
        /\ \A name \in LabelNames :
               LET s == SizeOf(name)
               IN  /\ \A i \in 0..(s - 1) :
                          /\ <<name, i - s>> \in DOMAIN mii.table
                          /\ mii.table[<<name, i - s>>] = mii.table[<<name, i>>]
                   /\ <<name>> \in DOMAIN mii.table <=> s = 1
                   /\ s = 1 => mii.table[<<name>>] = mii.table[<<name, 0>>]

\* The table of a register b of size 1 and a register a of size 3.
C16_Witness ==
    /\ mii.done
    /\ job = <<(<< <<"b", 0>>, <<"a", 0>>, <<"a", 1>>, <<"a", 2>> >>)>>
    /\ mii.table[<<"b">>] = 4
    /\ mii.table[<<"a", -3>>] = 2
    /\ <<"a">> \notin DOMAIN mii.table

\* C17, as the claim states it: clbit_label_to_mii raises an exception
\* when the labels of some register are not the run 0 .. size - 1.
C17_NotContiguousRaises ==
    (mii.done /\ \E e \in 1..Len(job) : ~ ContiguousIn(job[e])) =>
        mii.err # "none"

\* ----------------------------------------------------- positions and counts
\* memory_item_index or gather_counts is called once, for a result object
\* of one experiment and its memory.
InitCounts ==
    /\ NoRest
    /\ Idle
    /\ \E labels \in Layouts :
           /\ job = OneResult(labels)
           /\ memory \in Memories(labels)
    /\ mii = NoMii
    /\ mix = NoMix
    /\ counts = NoCounts

NextCounts ==
    \/ /\ ~ mix.done /\ ~ counts.done
       /\ \E clbitspec \in BitSpecLists : CallMemoryItemIndex(clbitspec)
    \/ /\ ~ mix.done /\ ~ counts.done
       /\ \E clbitspec \in BitSpecLists :
              CallGatherCounts(clbitspec, NoPredicate, NoKeys)
    \/ /\ ~ mix.done /\ ~ counts.done
       /\ \E clbitspec \in WhereLists, keys \in KeysArguments :
              CallGatherCounts(clbitspec, NoPredicate, keys)
    \/ /\ ~ mix.done /\ ~ counts.done
       /\ \E clbitspec \in WhereLists, predicate \in Predicates :
              CallGatherCounts(clbitspec, predicate, NoKeys)

SpecCounts == InitCounts /\ [][NextCounts]_vars

\* How a name is resolved against the registers the result object
\* declares: the register names that contain it, whether it fails to
\* resolve, the register it stands for, and the key of a bit specification.
Cands(name) == {regname \in DeclaredNames : IsIn(name, regname)}
Ambiguous(name) == name \notin DeclaredNames /\ Cardinality(Cands(name)) > 1
NotFound(name) == name \notin DeclaredNames /\ Cands(name) = {}
RegisterOf(name) ==
    IF name \in DeclaredNames THEN name
    ELSE CHOOSE regname \in Cands(name) : TRUE
KeyOf(spec) ==
    IF Len(spec) = 2 THEN <<RegisterOf(spec[1]), spec[2]>>
    ELSE <<RegisterOf(spec[1])>>
PositionTable == ClbitLabelToMii(job).table
Resolvable(spec) ==
    /\ ~ Ambiguous(spec[1])
    /\ ~ NotFound(spec[1])
    /\ KeyOf(spec) \in DOMAIN PositionTable
AllResolvable(clbitspec) ==
    \A x \in 1..Len(clbitspec) : Resolvable(clbitspec[x])

\* A result object that declares no register: no name is found in it.
NoRegisters == <<(<<>>)>>

\* C18, as the claim states it: memory_item_index takes the register whose
\* name is the given name, and otherwise the one register whose name
\* contains it; when the bit specifications resolve it returns their
\* positions in the order given, as one position for one specification and
\* as a tuple otherwise; it raises an exception when a name is contained in
\* several register names or in none, and the exception for a name several
\* register names contain is not the one raised for a name that is not
\* found.
C18_ResolvesOrTellsWhy ==
    (mix.done /\ mix.clbitspec # <<>>) =>
        LET S == mix.clbitspec
        IN  /\ AllResolvable(S) =>
                   /\ mix.err = NoError
                   /\ mix.at = [x \in 1..Len(S) |-> PositionTable[KeyOf(S[x])]]
                   /\ mix.single <=> Len(S) = 1
            /\ \A x \in 1..Len(S) :
                   AllResolvable(SubSeq(S, 1, x - 1)) =>
                       /\ (Ambiguous(S[x][1]) \/ NotFound(S[x][1])) =>
                              /\ mix.err.type = "ValueError"
                              /\ mix.err.arg = S[x][1]
                       /\ Ambiguous(S[x][1]) =>
                              mix.err # MemoryItemIndex(NoRegisters, <<S[x]>>).err

\* The characters gather_counts is to take from the memory string of shot
\* x, and the number of shots they are k for.
Taken(x) ==
    IF counts.clbitspec = <<>> THEN memory[x]
    ELSE [y \in 1..Len(counts.clbitspec) |->
             memory[x][PositionTable[KeyOf(counts.clbitspec[y])] + 1]]
Tallied(k) == Cardinality({x \in 1..Len(memory) : Taken(x) = k})

\* C19, as the claim states it: gather_counts with one bit specification
\* or more, no predicate and no keys returns the table that counts, for the
\* shots of the memory, the characters at the resolved positions joined in
\* the order of the specifications; with one specification the keys of the
\* table are single characters.
C19_CountsOfTakenCharacters ==
    (/\ counts.done
     /\ counts.clbitspec # <<>>
     /\ counts.predicate = NoPredicate
     /\ counts.keys = NoKeys
     /\ AllResolvable(counts.clbitspec)) =>
        /\ counts.err = NoError
        /\ DOMAIN counts.table = {Taken(x) : x \in 1..Len(memory)}
        /\ \A k \in DOMAIN counts.table : counts.table[k] = Tallied(k)
        /\ Len(counts.clbitspec) = 1 =>
               \A k \in DOMAIN counts.table : Len(k) = 1

\* C20, as the claim states it: gather_counts with keys given, with or
\* without bit specifications, returns a table that has every key of keys:
\* for a mapping with the tallied count plus the value of the key, for an
\* iterable with the tallied count, which is zero for a key not tallied.
C20_KeysArePresent ==
    (/\ counts.done
     /\ counts.keys.kind # "None"
     /\ AllResolvable(counts.clbitspec)) =>
        /\ counts.err = NoError
        /\ \A k \in DOMAIN counts.keys.map :
               /\ k \in DOMAIN counts.table
               /\ counts.table[k] = Tallied(k) + counts.keys.map[k]

\* ------------------------------------------------- the factory, step by step
\* C27: in every step of a get_qft call, the recursive calls included, no
\* procedure has itself as the value of a cross-reference attribute; an
\* attribute that has a value keeps it; a procedure whose call has returned
\* has its __inverse__, __opposite_endian__ and __opposite_mf__; and the
\* only exception ever raised is the one for an output_endian that is not
\* one of the accepted values, so that no assertion of the factory fails
\* and 'Unexpected value for iterk' is not raised.
C27_BoundOnceNeverToItself ==
    [][/\ \A f \in 1..Len(objs'), attr \in Attrs :
              objs'[f].attrs[attr] # f
       /\ \A f \in 1..Len(objs), attr \in Attrs :
              objs[f].attrs[attr] # 0 =>
                  /\ f <= Len(objs')
                  /\ objs'[f].attrs[attr] = objs[f].attrs[attr]
       /\ (stack' = <<>> /\ err' = "none") =>
              \A f \in 1..Len(objs') :
                  objs'[f].src.kind # "example" =>
                      /\ objs'[f].attrs["__inverse__"] # 0
                      /\ objs'[f].attrs["__opposite_endian__"] # 0
                      /\ objs'[f].attrs["__opposite_mf__"] # 0
       /\ err' # "none" =>
              /\ err' = "output_endian"
              /\ pending.output_endian \notin Endians \/ err = err'
      ]_vars

\* A call is three calls deep in the binding of cross-references: the
\* procedure of the outermost call has no __inverse__ yet, and another
\* procedure has one.
C27_Witness ==
    /\ Len(stack) >= 3
    /\ stack[1].pc = "wait"
    /\ stack[1].attr = "__inverse__"
    /\ objs[stack[1].f].attrs["__inverse__"] = 0
    /\ \E f \in 1..Len(objs) : objs[f].attrs["__inverse__"] # 0

\* ------------------------------------------------ positions and characters
\* The bits of the shot whose memory string is k, in declaration order.
BitsOf(k) ==
    CHOOSE bits \in ShotBits :
        MemoryItem(AllLabels, bits, Len(AllLabels)) = k

\* C29: for a result object of one experiment whose memory strings hold
\* the registers from the last declared to the first, separated by one
\* space, each with its highest index first, every position of the table
\* of clbit_label_to_mii lies in the string and holds no separator, the
\* position of a declared bit holds the character of that bit, and
\* gather_counts does not fail in take.
C29_PositionsHoldTheirBits ==
    /\ LET table == PositionTable
       IN  \A x \in 1..Len(memory) :
               /\ \A key \in DOMAIN table :
                      /\ table[key] \in 0..(Len(memory[x]) - 1)
                      /\ memory[x][table[key] + 1] # " "
               /\ \A y \in 1..Len(AllLabels) :
                      memory[x][table[AllLabels[y]] + 1]
                          = BitsOf(memory[x])[y]
    /\ counts.err.type \notin {"AssertionError", "IndexError"}

\* gather_counts has returned the table of two bits of different
\* registers, out of three registers and two shots.
C29_Witness ==
    /\ counts.done
    /\ counts.err = NoError
    /\ Cardinality(DeclaredNames) = 3
    /\ counts.clbitspec = << <<(<<"a">>)>>, <<(<<"b">>), 0>> >>
    /\ memory = << <<"1", " ", "0", " ", "0">>, <<"0", " ", "1", " ", "0">> >>
    /\ counts.predicate = NoPredicate
    /\ counts.table = (<<"0", "0">> :> 1) @@ (<<"0", "1">> :> 1)

\* ------------------------------------------------- counting with a predicate
\* What a predicate says of shot x: the character of a bit is the one at
\* the position of the bit, and a character is a true value.
SaysOperand(x, o) ==
    IF o.kind = "item" THEN memory[x][o.at + 1] = o.ch
    ELSE IF o.kind = "bit" THEN TRUE
    ELSE memory[x][PositionTable[KeyOf(o.spec)] + 1] = o.ch
Says(x, predicate) ==
    LET l == SaysOperand(x, predicate.operands[1])
    IN  IF predicate.op = "only" THEN l
        ELSE IF predicate.op = "not" THEN ~ l
        ELSE IF predicate.op = "and"
        THEN l /\ SaysOperand(x, predicate.operands[2])
        ELSE l \/ SaysOperand(x, predicate.operands[2])
Selected == {x \in 1..Len(memory) : Says(x, counts.predicate)}
Evaluable(predicate) ==
    \A y \in 1..Len(predicate.operands) :
        LET o == predicate.operands[y]
        IN  IF o.kind = "item"
            THEN \A x \in 1..Len(memory) : o.at < Len(memory[x])
            ELSE Resolvable(o.spec)

\* C21, as the claim states it: gather_counts with a predicate returns the
\* table that counts the memory strings for which the predicate is true,
\* the accessor giving the character at the position of the bit in the
\* string; with bit specifications given as well, the strings counted are
\* reduced to the characters at the positions of the specifications, and
\* the predicate is still evaluated on the whole string.
C21_CountsWhereThePredicateHolds ==
    (/\ counts.done
     /\ counts.predicate # NoPredicate
     /\ Evaluable(counts.predicate)
     /\ AllResolvable(counts.clbitspec)) =>
        /\ counts.err = NoError
        /\ DOMAIN counts.table = {Taken(x) : x \in Selected}
        /\ \A k \in DOMAIN counts.table :
               counts.table[k] = Cardinality({x \in Selected : Taken(x) = k})

\* The same holds of every call that is not given exactly one bit
\* specification.
C21_ExceptWithOneSpecification ==
    Len(counts.clbitspec) # 1 => C21_CountsWhereThePredicateHolds

\* ---------------------------------------------------------- the tokenizer
\* expand (s, funcname) is called on a source of at most MaxItems lexemes.
Sources == UNION {[1..n -> Lexemes] : n \in 0..MaxItems}

InitTokens ==
    /\ Idle
    /\ NoBits
    /\ prov = NoProv
    /\ mon = NoMon
    /\ world = <<>>
    /\ wire = NoWire
    /\ \E s \in Sources, funcname \in FuncNames :
           /\ Realisable(s)
           /\ gen = NewGenerator(s, funcname)

NextTokens ==
    \/ TokenizeBegin
    \/ TokenizeLoop
    \/ ExpandJoin

SpecTokens == InitTokens /\ [][NextTokens]_vars

\* What the notation is, read off the tokens of the source: a name or a
\* quoted string, a marker in the same line, and then in the same line a
\* decimal number, or a minus sign and a decimal number, or neither.
Raw == GenerateTokens(gen.s, 1, 1, 0)
DecimalDigits == {"0", "1", "2", "3", "4", "5", "6", "7", "8", "9"}
IsDecimal(t) ==
    /\ t.type = "NUMBER"
    /\ \A x \in 1..Len(t.string) : t.string[x] \in DecimalDigits
IsMarker(t) == t.type = "OP" /\ t.string \in {<<"|">>, <<"@">>}
IsMinus(t) == t.type = "OP" /\ t.string = <<"-">>
InLine(toks, x, y) == y <= Len(toks) /\ toks[y].start[1] = toks[x].start[1]

\* The number of tokens of the notation that starts at token x, or 0.
MatchAt(toks, x) ==
    IF ~ (/\ toks[x].type \in {"NAME", "STRING"}
          /\ InLine(toks, x, x + 1)
          /\ IsMarker(toks[x + 1]))
    THEN 0
    ELSE IF InLine(toks, x, x + 2) /\ IsDecimal(toks[x + 2]) THEN 3
    ELSE IF /\ InLine(toks, x, x + 3)
            /\ IsMinus(toks[x + 2])
            /\ IsDecimal(toks[x + 3])
    THEN 4
    ELSE 2

\* The type and the text of each token, without its place.
Words(toks) == [x \in 1..Len(toks) |-> <<toks[x].type, toks[x].string>>]

\* The call that stands for the notation of k tokens at token x.
AccessorCall(toks, x, k, funcname) ==
    <<(<<"NAME", funcname>>), (<<"OP", <<"(">> >>),
      (<<"STRING", IF toks[x].type = "STRING" THEN toks[x].string
                   ELSE <<"'">> \o toks[x].string \o <<"'">> >>)>>
    \o (IF k = 2 THEN <<>>
        ELSE <<(<<"OP", <<",">> >>)>> \o Words(SubSeq(toks, x + 2, x + k - 1)))
    \o <<(<<"OP", <<")">> >>)>>

\* The words of the rewritten source, from token x on.
RECURSIVE Rewritten(_, _, _)
Rewritten(toks, x, funcname) ==
    IF x > Len(toks) THEN <<>>
    ELSE LET k == MatchAt(toks, x)
         IN  IF k = 0
             THEN <<(<<toks[x].type, toks[x].string>>)>>
                  \o Rewritten(toks, x + 1, funcname)
             ELSE AccessorCall(toks, x, k, funcname)
                  \o Rewritten(toks, x + k, funcname)

ValidIdentifier(funcname) ==
    /\ funcname # <<>>
    /\ funcname[1] \in Letters
    /\ \A x \in 1..Len(funcname) : funcname[x] \in Letters \cup DecimalDigits
Ended == gen.pc \in {"raised", "expanded"}

\* C22, as the claim states it: expand rewrites every name or quoted string
\* that a marker follows in its line into a call of the accessor, with the
\* signed number as second argument when a decimal number, or a minus sign
\* and a decimal number, follows in that line; what does not share a line
\* is not combined; every other token is emitted as it is, in order.
C22_RewritesEveryOccurrence ==
    (Ended /\ ValidIdentifier(gen.funcname)) =>
        /\ gen.pc = "expanded"
        /\ Words(gen.out) = Rewritten(Raw, 1, gen.funcname)

\* Whenever expand returns, what it returns is the rewritten source.
C22_WhenExpandReturns ==
    gen.pc = "expanded" =>
        Words(gen.out) = Rewritten(Raw, 1, gen.funcname)

\* The source without its spaces.
Unspaced(src) == SelectSeq(src, LAMBDA l : ~ IsSpace(l))

\* C23, as the claim states it: with any number of spaces in the line
\* between the name and the marker and between the marker and the index,
\* expand returns, and the call it writes is the one it writes for the
\* source without the spaces.
C23_AnySpacing ==
    (/\ Ended
     /\ ValidIdentifier(gen.funcname)
     /\ Realisable(Unspaced(gen.s))) =>
        /\ gen.pc = "expanded"
        /\ Words(gen.out) = Words(Expand(Unspaced(gen.s), gen.funcname).out)

\* Whenever expand returns, the spaces have made no difference.
C23_WhenExpandReturns ==
    (gen.pc = "expanded" /\ Realisable(Unspaced(gen.s))) =>
        Words(gen.out) = Words(Expand(Unspaced(gen.s), gen.funcname).out)

\* C24, as the claim states it: with an accessor name that is not an
\* identifier, tokenize and expand raise an error and nothing is yielded or
\* returned, also when the name begins with an identifier.
C24_RejectsInvalidNames ==
    ~ ValidIdentifier(gen.funcname) =>
        /\ gen.pc \in {"created", "raised"}
        /\ gen.out = <<>>
        /\ gen.text = <<>>

\* The pieces of the token stream: each token that is not part of the
\* notation with the token emitted for it, and each notation with the
\* tokens of its call.
RECURSIVE Pieces(_, _, _)
Pieces(toks, x, y) ==
    IF x > Len(toks) THEN <<>>
    ELSE LET k == MatchAt(toks, x)
         IN  IF k = 0
             THEN <<[rewritten |-> FALSE, x1 |-> x, x2 |-> x, y1 |-> y,
                     y2 |-> y]>>
                  \o Pieces(toks, x + 1, y + 1)
             ELSE <<[rewritten |-> TRUE, x1 |-> x, x2 |-> x + k - 1,
                     y1 |-> y, y2 |-> y + (IF k = 2 THEN 3 ELSE k + 2)]>>
                  \o Pieces(toks, x + k, y + (IF k = 2 THEN 4 ELSE k + 3))

\* By how much the rewrites among the first n pieces that lie in line ln
\* have made the line longer.
RECURSIVE NetChange(_, _, _, _, _)
NetChange(toks, out, pieces, n, ln) ==
    IF n = 0 THEN 0
    ELSE LET p == pieces[n]
         IN  NetChange(toks, out, pieces, n - 1, ln)
             + (IF p.rewritten /\ toks[p.x1].start[1] = ln
                THEN (out[p.y2].end[2] - out[p.y1].start[2])
                     - (toks[p.x2].end[2] - toks[p.x1].start[2])
                ELSE 0)

\* C28: the tokens yielded so far are in order, each starting in its line
\* no earlier than the one before it ends; when the generator has returned,
\* each token that is not rewritten is emitted with its start and its end
\* moved by the net change in length of the rewrites before it in its
\* line; and untokenize raises no error on the tokens.
C28_ConsistentPositions ==
    /\ \A y \in 1..(Len(gen.out) - 1) :
           \/ gen.out[y].end[1] < gen.out[y + 1].start[1]
           \/ /\ gen.out[y].end[1] = gen.out[y + 1].start[1]
              /\ gen.out[y].end[2] <= gen.out[y + 1].start[2]
    /\ gen.pc \in {"returned", "expanded"} =>
           LET pieces == Pieces(Raw, 1, 1)
           IN  \A n \in 1..Len(pieces) :
                   ~ pieces[n].rewritten =>
                       LET ti == Raw[pieces[n].x1]
                           to == gen.out[pieces[n].y1]
                           by == NetChange(Raw, gen.out, pieces, n - 1,
                                           ti.start[1])
                       IN  /\ to.type = ti.type /\ to.string = ti.string
                           /\ to.start = <<ti.start[1], ti.start[2] + by>>
                           /\ to.end = <<ti.end[1], ti.end[2] + by>>
    /\ gen.pc = "returned" => Join(gen).pc = "expanded"
    /\ gen.err # "none" =>
           \/ gen.err = "AssertionError"
           \/ gen.err = "ValueError" /\ ~ test_funcname(gen.funcname)

\* expand has returned _('a')_('a') for a|a|: two rewrites in one line, with
\* the end of the line after them.
C28_Witness ==
    /\ gen.pc = "expanded"
    /\ gen.s = <<(<<"a">>), (<<"|">>), (<<"a">>), (<<"|">>)>>
    /\ gen.funcname = <<"_">>
    /\ gen.text = <<"_", "(", "'", "a", "'", ")", "_", "(", "'", "a", "'", ")">>
    /\ gen.out[9] = Token("NEWLINE", <<>>, 1, 12, 13)

\* --------------------------------------------------------- the provider cache
\* get_provider is called again and again.
NextProvider ==
    \E provider \in ProviderArguments, token \in Tokens,
       instance \in Instances, ok \in BOOLEAN :
        CallGetProvider(provider, token, instance, ok)

SpecProvider == Init /\ [][NextProvider]_vars

\* Whether a cached provider is one for the token and the instance given.
ValidFor(cached, call) ==
    /\ cached # NoProvider
    /\ call.token # "None" => cached.token = call.token
    /\ call.instance # "None" => cached.instance = call.instance

\* C25: in every call of get_provider, _cached gets another value only when
\* provider is 'renew', or is None with no cached provider that is valid
\* for the token and the instance given; a call with 'cached', a provider
\* instance or an invalid value provisions nothing and leaves _cached as it
\* is; and a call with 'cached' returns the cached provider when it is
\* valid for the token and the instance, and None otherwise.
C25_CacheReplacedOnlyOnDemand ==
    [][LET call == prov'.call
       IN  /\ prov'.cached # prov.cached =>
                  \/ call.provider.kind = "renew"
                  \/ /\ call.provider.kind = "None"
                     /\ ~ ValidFor(prov.cached, call)
           /\ call.provider.kind \in {"cached", "instance", "invalid"} =>
                  /\ prov'.cached = prov.cached
                  /\ prov'.made = prov.made
           /\ call.provider.kind = "cached" =>
                  /\ prov'.err = "none"
                  /\ prov'.ret = IF ValidFor(prov.cached, call)
                                 THEN prov.cached ELSE NoProvider
      ]_vars

\* A call with 'cached' has returned None although a provider is cached,
\* the second one provisioned: it is not one for the instance asked for.
C25_Witness ==
    /\ prov.called
    /\ prov.call.provider.kind = "cached"
    /\ prov.call.instance = "i2"
    /\ prov.cached.id = 2
    /\ prov.cached.instance = "i1"
    /\ prov.ret = NoProvider

\* ------------------------------------------------------------ the job monitor
\* jobs_monitor is called with up to MaxJobs jobs, each of them in the queue,
\* running or done by then, and the service moves the jobs on while it runs.
JobLists == UNION {[1..n -> JobIds] : n \in 0..MaxJobs}
\* The steps of jobs_monitor itself.
MonitorStep ==
    \/ \E jobs \in JobLists, interval \in Intervals, job_id_minlen \in MinLens :
           \E status \in [SetOf(jobs) -> {"QUEUED", "RUNNING", "DONE"}] :
               CallJobsMonitor(jobs, status, interval, job_id_minlen)
    \/ SliceIds
    \/ TestIds
    \/ \E queue_position \in {"None", "1"} : Poll(queue_position)
    \/ EndPass
NextMonitor ==
    \/ MonitorStep
    \/ \E id \in JobIds : JobAdvance(id)

\* The monitor runs on: the call is made, neither loop stops between two
\* steps, and time.sleep returns.  Every job that has not ended is moved
\* on, so that every job reports DONE, CANCELLED or ERROR in the end.
FairSpecMonitor ==
    /\ Init
    /\ [][NextMonitor]_vars
    /\ WF_vars(MonitorStep)
    /\ \A id \in JobIds : WF_vars(JobAdvance(id))

\* C30: jobs_monitor returns in the end whenever each of its jobs reports
\* DONE, CANCELLED or ERROR in the end, and it never asks a job for its
\* status whose recorded state is one of those three.
C30_ReturnsAndNeverPollsTheEnded ==
    /\ <>(mon.pc = "returned")
    /\ [][mon' # mon /\ mon'.asked # 0 =>
              mon.states[mon'.asked] \notin ended]_vars

\* The second half of C30 alone.
C30_NeverPollsTheEnded ==
    [][mon' # mon /\ mon'.asked # 0 =>
          mon.states[mon'.asked] \notin ended]_vars

\* The first half of C30 for jobs that are pairwise different.
C30_ReturnsWithDifferentJobs ==
    (mon.pc = "slice" /\ Cardinality(SetOf(mon.jobs)) = Len(mon.jobs))
        ~> (mon.pc = "returned")

\* Every job reports an ended status in the end.
C30_EveryJobEnds ==
    <>[](mon.pc # "none" /\ \A id \in DOMAIN world : world[id] \in ended)

\* ------------------------------------------------------------------- wiring
\* prepare is called once, for a circuit to prepare, a circuit to attach and
\* a wiring of up to MaxWires pairs.
NextWiring ==
    \E qc0 \in Qc0s, qc1 \in Qc1s, wiring \in Wirings :
        CallPrepare(qc0, qc1, wiring)

SpecWiring == Init /\ [][NextWiring]_vars

\* The qubits returned are one for each qubit of the attached circuit,
\* pairwise different, and indices of qubits of qc0 as it is afterwards.
ValidQubits(qubits, qc0, qc1) ==
    /\ Len(qubits) = Len(qc1.qubits)
    /\ \A k, n \in DOMAIN qubits : k # n => qubits[k] # qubits[n]
    /\ \A k \in DOMAIN qubits : qubits[k] \in 0..(Len(qc0.qubits) - 1)

\* C26: when prepare raises anything but a failure of add_register, qc0 is
\* as it was before the call; and when prepare returns, the qubits returned
\* are one for each qubit of the attached circuit, pairwise different, and
\* valid qubit indices of qc0 as prepared.
C26_UntouchedOrValidQubits ==
    wire.called =>
        /\ wire.err \notin {"none", "CircuitError"} => wire.qc0 = wire.before
        /\ wire.err = "none" =>
               ValidQubits(wire.kwargs.qubits, wire.qc0, wire.qc1)

\* The first half of C26 alone.
C26_UntouchedOnOtherErrors ==
    wire.called /\ wire.err \notin {"none", "CircuitError"} =>
        wire.qc0 = wire.before

\* Whether no bit is in two registers of qc1 or in both circuits.
OwnBits(qc0, qc1) ==
    /\ \A k, n \in DOMAIN qc1.qregs :
           k # n => \A a \in DOMAIN qc1.qregs[k].bits,
                       b \in DOMAIN qc1.qregs[n].bits :
                       qc1.qregs[k].bits[a] # qc1.qregs[n].bits[b]
    /\ \A a \in DOMAIN qc0.qubits, b \in DOMAIN qc1.qubits :
           qc0.qubits[a] # qc1.qubits[b]

\* The second half of C26 for registers with bits of their own.
C26_ValidQubitsWithOwnBits ==
    wire.called /\ wire.err = "none" /\ OwnBits(wire.before, wire.qc1) =>
        ValidQubits(wire.kwargs.qubits, wire.qc0, wire.qc1)

\* prepare has returned for a wiring of two pairs and has added a register.
C26_SomeReturn ==
    /\ wire.called
    /\ wire.err = "none"
    /\ Len(wire.wiring) = 2
    /\ OwnBits(wire.before, wire.qc1)
    /\ Len(wire.qc0.qubits) > Len(wire.before.qubits)
====
